---- MODULE Spec2Model ----
(***************************************************************************)
(* State-machine model of the lip-sync subsystem of sdk-vrm:               *)
(*   LipSyncEngine (orchestrator / viseme smoother),                       *)
(*   MorphMapper   (target resolver),                                      *)
(*   AudioAnalyzer (signal analyzer: lifecycle and analysis),              *)
(*   VRMManager    (avatar loading, the lipSync and animation facades,     *)
(*                  events), with the ResourceLoader's cache and the       *)
(*                  AnimationPlayer it owns,                               *)
(*   ExpressionController (presets and blending).                          *)
(* JavaScript numbers are modelled as exact rationals <<n, d>>; every      *)
(* input that is drawn is a dyadic rational of small exponent, for which   *)
(* IEEE-754 double arithmetic is exact, so the model computes what the     *)
(* code computes. The one exception is the formant proximity of the        *)
(* analyzer, which is carried in units of 1/ProximityScale.                *)
(***************************************************************************)
EXTENDS Integers, Sequences, FiniteSets, TLC

(* ------------------------------------------------------------------ *)
(* Numbers                                                            *)
(* ------------------------------------------------------------------ *)

RECURSIVE GCD(_, _)
GCD(a, b) == IF b = 0 THEN a ELSE GCD(b, a % b)

Abs(x) == IF x < 0 THEN -x ELSE x

\* the rational n/d (d > 0) in lowest terms
Rat(n, d) ==
    LET g == GCD(Abs(n), d)
    IN  IF n = 0 THEN <<0, 1>> ELSE <<n \div g, d \div g>>

Zero == <<0, 1>>
One == <<1, 1>>

RAdd(x, y) == Rat(x[1] * y[2] + y[1] * x[2], x[2] * y[2])
RSub(x, y) == Rat(x[1] * y[2] - y[1] * x[2], x[2] * y[2])
RMul(x, y) == Rat(x[1] * y[1], x[2] * y[2])
RLt(x, y) == x[1] * y[2] < y[1] * x[2]
RLe(x, y) == x[1] * y[2] <= y[1] * x[2]
RMin(x, y) == IF RLt(y, x) THEN y ELSE x
RMax(x, y) == IF RLt(x, y) THEN y ELSE x
RAbs(x) == <<Abs(x[1]), x[2]>>
RInt(k) == <<k, 1>>

(* ------------------------------------------------------------------ *)
(* Vowels, channel names, keyword patterns                            *)
(* ------------------------------------------------------------------ *)

\* key order of the vowel-weight objects (insertion order of the literals)
VowelOrder == <<"aa", "e", "ih", "oh", "ou">>
Vowels == {VowelOrder[i] : i \in 1..Len(VowelOrder)}

ZeroWeights == [v \in Vowels |-> Zero]

vrcVowelMorphs == <<"vrc.v_aa", "vrc.v_e", "vrc.v_ih", "vrc.v_oh", "vrc.v_ou">>

vrcMapping ==
    [v \in Vowels |->
        CASE v = "aa" -> "vrc.v_aa"
          [] v = "e"  -> "vrc.v_e"
          [] v = "ih" -> "vrc.v_ih"
          [] v = "oh" -> "vrc.v_oh"
          [] v = "ou" -> "vrc.v_ou"]

expressionMapping ==
    [v \in Vowels |->
        CASE v = "aa" -> "aa"
          [] v = "e"  -> "e"
          [] v = "ih" -> "i"
          [] v = "oh" -> "o"
          [] v = "ou" -> "u"]

resetExpressions == <<"aa", "e", "i", "o", "u">>

alternativeMorphPatterns ==
    << <<"m","o","u","t","h">>, <<"l","i","p">>, <<"j","a","w">>,
       <<"t","e","e","t","h">>, <<"t","o","n","g","u","e">>,
       <<"a","a">>, <<"a","h">>, <<"c","h">>, <<"d","d">>, <<"e">>,
       <<"e","e">>, <<"f","f">>, <<"i","h">>, <<"k","k">>,
       <<"n","n">>, <<"o","h">>, <<"o","u">>, <<"p","p">>, <<"r","r">>,
       <<"s","i","l">>, <<"s","s">>, <<"t","h">> >>

\* the morph-target names that occur on the avatars of the model
MorphNames ==
    {"vrc.v_aa", "vrc.v_e", "vrc.v_ih", "vrc.v_oh", "vrc.v_ou",
     "mouth_open", "JawDrop", "Blink"}

\* the characters of a morph-target name
Chars(name) ==
    CASE name = "vrc.v_aa"   -> <<"v","r","c",".","v","_","a","a">>
      [] name = "vrc.v_e"    -> <<"v","r","c",".","v","_","e">>
      [] name = "vrc.v_ih"   -> <<"v","r","c",".","v","_","i","h">>
      [] name = "vrc.v_oh"   -> <<"v","r","c",".","v","_","o","h">>
      [] name = "vrc.v_ou"   -> <<"v","r","c",".","v","_","o","u">>
      [] name = "mouth_open" -> <<"m","o","u","t","h","_","o","p","e","n">>
      [] name = "JawDrop"    -> <<"J","a","w","D","r","o","p">>
      [] name = "Blink"      -> <<"B","l","i","n","k">>

LowerChar(c) ==
    CASE c = "J" -> "j"
      [] c = "D" -> "d"
      [] c = "B" -> "b"
      [] OTHER   -> c

toLowerCase(s) == [i \in 1..Len(s) |-> LowerChar(s[i])]

includes(hay, needle) ==
    \E i \in 1..(Len(hay) - Len(needle) + 1) :
        SubSeq(hay, i, i + Len(needle) - 1) = needle

\* morphName.toLowerCase().includes(pattern) for some pattern of the list
MatchesSomePattern(name) ==
    \E p \in 1..Len(alternativeMorphPatterns) :
        includes(toLowerCase(Chars(name)), alternativeMorphPatterns[p])

\* the names of the model that match (a table, computed once)
MatchingNames == {n \in MorphNames : MatchesSomePattern(n)}

MatchesPattern(name) == name \in MatchingNames

(* ------------------------------------------------------------------ *)
(* Avatars: the VRM objects handed to setVRM                          *)
(* ------------------------------------------------------------------ *)

NoVRM == "null"

AvatarIds == {"vrcFull", "vrcSplit", "exprOnly", "exprNone", "altOnly", "bare"}

\* the skinned meshes of an avatar in scene-traversal order: the mesh's
\* morphTargetDictionary and whether it has a morphTargetInfluences array
Meshes(a) ==
    CASE a = "vrcFull" ->
           << [dict |-> ("vrc.v_aa" :> 0) @@ ("vrc.v_e" :> 1) @@ ("vrc.v_ih" :> 2)
                        @@ ("vrc.v_oh" :> 3) @@ ("vrc.v_ou" :> 4) @@ ("mouth_open" :> 5),
               infl |-> TRUE] >>
      [] a = "vrcSplit" ->
           << [dict |-> ("vrc.v_aa" :> 0) @@ ("vrc.v_oh" :> 1), infl |-> TRUE],
              [dict |-> ("vrc.v_aa" :> 0) @@ ("JawDrop" :> 1), infl |-> TRUE],
              [dict |-> ("vrc.v_e" :> 0), infl |-> FALSE] >>
      [] a = "exprOnly" ->
           << [dict |-> ("Blink" :> 0) @@ ("mouth_open" :> 1), infl |-> TRUE] >>
      [] a = "exprNone" ->
           << [dict |-> ("mouth_open" :> 0), infl |-> TRUE] >>
      [] a = "altOnly" ->
           << [dict |-> ("mouth_open" :> 0) @@ ("JawDrop" :> 1) @@ ("Blink" :> 2),
               infl |-> TRUE] >>
      [] a = "bare" -> << >>

\* vrm.expressionManager is present
HasExpressionManager(a) == a \in {"vrcFull", "exprOnly", "exprNone"}

\* the expressions registered in the avatar's expression manager
ExpressionNames(a) ==
    CASE a = "vrcFull"  -> {"aa", "e", "i", "o", "u"}
      [] a = "exprOnly" -> {"aa", "i", "u", "happy"}
      [] a = "exprNone" -> {"happy"}
      [] OTHER          -> {}

\* a sink: one element of one mesh's morphTargetInfluences array
SinksOf(a) ==
    UNION {{<<a, m, Meshes(a)[m].dict[n]>> : n \in DOMAIN Meshes(a)[m].dict} :
              m \in {k \in 1..Len(Meshes(a)) : Meshes(a)[k].infl}}

Sinks == UNION {SinksOf(a) : a \in AvatarIds}

ExprKeys == UNION {{<<a, n>> : n \in ExpressionNames(a)} : a \in AvatarIds}

\* the mesh object a sink belongs to
MeshOf(s) == Meshes(s[1])[s[2]]

\* the sinks of the channel called name
SinksNamed(a, name) ==
    {<<a, m, Meshes(a)[m].dict[name]>> :
        m \in {k \in 1..Len(Meshes(a)) :
                 Meshes(a)[k].infl /\ name \in DOMAIN Meshes(a)[k].dict}}

(* ------------------------------------------------------------------ *)
(* MorphMapper                                                        *)
(* ------------------------------------------------------------------ *)

useVRCMorphs == TRUE
useExpressions == TRUE

EmptyMap == [n \in {} |-> << >>]

\* buildMorphTargetMap: name -> list of {mesh, index}, meshes in traversal order
buildMorphTargetMap(a) ==
    LET ms == Meshes(a)
        usable(m) == ms[m].infl
        names == UNION {DOMAIN ms[m].dict : m \in {k \in 1..Len(ms) : usable(k)}}
        order == [m \in 1..Len(ms) |-> m]
        holders(n) == SelectSeq(order, LAMBDA m : usable(m) /\ n \in DOMAIN ms[m].dict)
    IN  [n \in names |->
            [j \in 1..Len(holders(n)) |-> <<a, holders(n)[j], ms[holders(n)[j]].dict[n]>>]]

\* variant: the table is not cleared, the new avatar's sinks are added to it
setVRMKeepsTable(map, a) ==
    LET new == buildMorphTargetMap(a)
    IN  [n \in DOMAIN map \cup DOMAIN new |->
            (IF n \in DOMAIN map THEN map[n] ELSE << >>)
               \o (IF n \in DOMAIN new THEN new[n] ELSE << >>)]

\* the table MorphMapper.setVRM(a) leaves: cleared and built from the
\* avatar's meshes; with no avatar the old table stays
setVRM(map, a) ==
    IF a = NoVRM THEN map ELSE buildMorphTargetMap(a)

\* the result of a resolver operation on (influences, expression weights)
Effect(infl, expr, wrote, exprSet, updates, strat) ==
    [infl |-> infl, expr |-> expr, wrote |-> wrote, exprSet |-> exprSet,
     updates |-> updates, strat |-> strat]

\* mesh.morphTargetDictionary has one of the VRC vowel morphs
hasVrcMorphs(mesh) ==
    \E k \in 1..Len(vrcVowelMorphs) : vrcVowelMorphs[k] \in DOMAIN mesh.dict

\* variant: the inner loop stops after the first target of the morph name
VrcWriteTargetsFirstOnly(targets, k, st, weight) ==
    IF Len(targets) = 0 THEN st
    ELSE IF hasVrcMorphs(MeshOf(targets[1])) /\ MeshOf(targets[1]).infl
    THEN [infl |-> [st.infl EXCEPT ![targets[1]] = weight],
          wrote |-> st.wrote \cup {targets[1]}, applied |-> TRUE]
    ELSE st

\* the inner loop of applyVRCMorphs over the targets of one morph name
RECURSIVE VrcWriteTargets(_, _, _, _)
VrcWriteTargets(targets, k, st, weight) ==
    IF k > Len(targets) THEN st
    ELSE LET t == targets[k]
             ok == hasVrcMorphs(MeshOf(t)) /\ MeshOf(t).infl
             nx == IF ok
                   THEN [infl |-> [st.infl EXCEPT ![t] = weight],
                         wrote |-> st.wrote \cup {t}, applied |-> TRUE]
                   ELSE st
         IN  VrcWriteTargets(targets, k + 1, nx, weight)

\* the outer loop of applyVRCMorphs over Object.entries(vowelWeights)
RECURSIVE VrcLoop(_, _, _, _)
VrcLoop(map, vw, i, st) ==
    IF i > Len(VowelOrder) THEN st
    ELSE LET vowel == VowelOrder[i]
             morphName == vrcMapping[vowel]
             nx == IF morphName \in DOMAIN map
                   THEN VrcWriteTargets(map[morphName], 1, st, vw[vowel])
                   ELSE st
         IN  VrcLoop(map, vw, i + 1, nx)

applyVRCMorphs(map, infl, vw) ==
    VrcLoop(map, vw, 1, [infl |-> infl, wrote |-> {}, applied |-> FALSE])

\* expressionManager.setValue(name, weight): an unregistered name is ignored
setValue(a, expr, name, weight) ==
    IF <<a, name>> \in DOMAIN expr THEN [expr EXCEPT ![<<a, name>>] = weight] ELSE expr

RECURSIVE ExprLoop(_, _, _, _)
ExprLoop(a, vw, i, st) ==
    IF i > Len(VowelOrder) THEN st
    ELSE LET vowel == VowelOrder[i]
             name == expressionMapping[vowel]
         IN  ExprLoop(a, vw, i + 1,
                      [expr |-> setValue(a, st.expr, name, vw[vowel]),
                       exprSet |-> st.exprSet \cup {name}])

applyExpressions(a, expr, vw) ==
    IF ~HasExpressionManager(a) THEN [expr |-> expr, exprSet |-> {}]
    ELSE ExprLoop(a, vw, 1, [expr |-> expr, exprSet |-> {}])

\* Math.max(...Object.values(vowelWeights))
RECURSIVE MaxFrom(_, _, _)
MaxFrom(vw, i, best) ==
    IF i > Len(VowelOrder) THEN best
    ELSE MaxFrom(vw, i + 1, RMax(best, vw[VowelOrder[i]]))

\* the values of the five vowel keys and of any further own key of the object
mouthValueOf(vw) ==
    LET m == MaxFrom(vw, 2, vw[VowelOrder[1]])
        others == {vw[k] : k \in DOMAIN vw \ Vowels}
    IN  IF others = {} THEN m
        ELSE RMax(m, CHOOSE x \in others : \A y \in others : RLe(y, x))

Half == <<1, 2>>

RECURSIVE AltWriteTargets(_, _, _, _)
AltWriteTargets(targets, k, st, value) ==
    IF k > Len(targets) THEN st
    ELSE LET t == targets[k]
             nx == IF MeshOf(t).infl
                   THEN [infl |-> [st.infl EXCEPT ![t] = value],
                         wrote |-> st.wrote \cup {t}]
                   ELSE st
         IN  AltWriteTargets(targets, k + 1, nx, value)

\* every morph name that matches a pattern gets mouthValue * 0.5; all writes
\* carry the same value, so the iteration order over patterns and map entries
\* does not show in the result
RECURSIVE AltLoop(_, _, _, _)
AltLoop(map, names, st, value) ==
    IF names = {} THEN st
    ELSE LET n == CHOOSE x \in names : TRUE
             nx == IF MatchesPattern(n)
                   THEN AltWriteTargets(map[n], 1, st, value)
                   ELSE st
         IN  AltLoop(map, names \ {n}, nx, value)

\* variant: the fallback writes the mouth value without the attenuation
applyAlternativeMorphsFull(map, infl, vw) ==
    AltLoop(map, DOMAIN map, [infl |-> infl, wrote |-> {}], mouthValueOf(vw))

applyAlternativeMorphs(map, infl, vw) ==
    AltLoop(map, DOMAIN map, [infl |-> infl, wrote |-> {}],
            RMul(mouthValueOf(vw), Half))

\* mutant: no return after the VRC morphs were applied
applyVowelWeightsFallsThrough(a, map, infl, expr, vw) ==
    IF a = NoVRM THEN Effect(infl, expr, {}, {}, 0, "none")
    ELSE
      LET vrc == applyVRCMorphs(map, infl, vw)
      IN  IF useExpressions /\ HasExpressionManager(a)
          THEN LET ex == applyExpressions(a, expr, vw)
               IN  Effect(vrc.infl, ex.expr, vrc.wrote, ex.exprSet, 1, "expr")
          ELSE LET alt == applyAlternativeMorphs(map, vrc.infl, vw)
               IN  Effect(alt.infl, expr, vrc.wrote \cup alt.wrote, {}, 1, "alt")

\* variant: the expression strategy counts as done only if a name resolved
applyVowelWeightsExprMustResolve(a, map, infl, expr, vw) ==
    IF a = NoVRM THEN Effect(infl, expr, {}, {}, 0, "none")
    ELSE
      LET vrc == applyVRCMorphs(map, infl, vw)
      IN  IF useVRCMorphs /\ vrc.applied
          THEN Effect(vrc.infl, expr, vrc.wrote, {}, 1, "vrc")
          ELSE IF /\ useExpressions /\ HasExpressionManager(a)
                  /\ \E v \in Vowels : <<a, expressionMapping[v]>> \in DOMAIN expr
          THEN LET ex == applyExpressions(a, expr, vw)
               IN  Effect(infl, ex.expr, {}, ex.exprSet, 1, "expr")
          ELSE LET alt == applyAlternativeMorphs(map, infl, vw)
               IN  Effect(alt.infl, expr, alt.wrote, {}, 1, "alt")

\* MorphMapper.applyVowelWeights on the bound avatar a
applyVowelWeights(a, map, infl, expr, vw) ==
    IF a = NoVRM THEN Effect(infl, expr, {}, {}, 0, "none")
    ELSE
      LET vrc == applyVRCMorphs(map, infl, vw)
      IN  IF useVRCMorphs /\ vrc.applied
          THEN Effect(vrc.infl, expr, vrc.wrote, {}, 1, "vrc")
          ELSE IF useExpressions /\ HasExpressionManager(a)
          THEN LET ex == applyExpressions(a, expr, vw)
               IN  Effect(infl, ex.expr, {}, ex.exprSet, 1, "expr")
          ELSE LET alt == applyAlternativeMorphs(map, infl, vw)
               IN  Effect(alt.infl, expr, alt.wrote, {}, 1, "alt")

RECURSIVE ResetTargets(_, _, _)
ResetTargets(targets, k, st) ==
    IF k > Len(targets) THEN st
    ELSE LET t == targets[k]
             nx == IF MeshOf(t).infl
                   THEN [infl |-> [st.infl EXCEPT ![t] = Zero],
                         wrote |-> st.wrote \cup {t}]
                   ELSE st
         IN  ResetTargets(targets, k + 1, nx)

RECURSIVE ResetLoop(_, _, _)
ResetLoop(map, i, st) ==
    IF i > Len(vrcVowelMorphs) THEN st
    ELSE LET morphName == vrcVowelMorphs[i]
             nx == IF morphName \in DOMAIN map
                   THEN ResetTargets(map[morphName], 1, st)
                   ELSE st
         IN  ResetLoop(map, i + 1, nx)

RECURSIVE ResetExprLoop(_, _, _)
ResetExprLoop(a, i, expr) ==
    IF i > Len(resetExpressions) THEN expr
    ELSE ResetExprLoop(a, i + 1, setValue(a, expr, resetExpressions[i], Zero))

\* variant: reset() zeroes every discovered sink, the fallback's included
resetEveryChannel(a, map, infl, expr) ==
    IF a = NoVRM THEN Effect(infl, expr, {}, {}, 0, "none")
    ELSE
      LET all == UNION {{map[n][k] : k \in 1..Len(map[n])} : n \in DOMAIN map}
          cleared == [s \in DOMAIN infl |-> IF s \in all THEN Zero ELSE infl[s]]
      IN  IF HasExpressionManager(a)
          THEN Effect(cleared, ResetExprLoop(a, 1, expr), all,
                      {resetExpressions[i] : i \in 1..Len(resetExpressions)}, 1, "reset")
          ELSE Effect(cleared, expr, all, {}, 1, "reset")

\* MorphMapper.reset on the bound avatar a
reset(a, map, infl, expr) ==
    IF a = NoVRM THEN Effect(infl, expr, {}, {}, 0, "none")
    ELSE
      LET r == ResetLoop(map, 1, [infl |-> infl, wrote |-> {}])
      IN  IF HasExpressionManager(a)
          THEN Effect(r.infl, ResetExprLoop(a, 1, expr), r.wrote,
                      {resetExpressions[i] : i \in 1..Len(resetExpressions)}, 1, "reset")
          ELSE Effect(r.infl, expr, r.wrote, {}, 1, "reset")

\* variant: the value is stored as given
clampNot(x) == x

\* Math.max(0, Math.min(1, value))
clamp01(x) == RMax(Zero, RMin(One, x))

RECURSIVE SetTargets(_, _, _, _)
SetTargets(targets, k, st, value) ==
    IF k > Len(targets) THEN st
    ELSE LET t == targets[k]
             nx == IF MeshOf(t).infl
                   THEN [infl |-> [st.infl EXCEPT ![t] = clamp01(value)],
                         wrote |-> st.wrote \cup {t}]
                   ELSE st
         IN  SetTargets(targets, k + 1, nx, value)

\* MorphMapper.setMorphTarget(morphName, value) on the bound avatar a
setMorphTarget(a, map, infl, morphName, value) ==
    IF morphName \notin DOMAIN map
    THEN [infl |-> infl, wrote |-> {}, updates |-> 0, ret |-> "false"]
    ELSE LET r == SetTargets(map[morphName], 1, [infl |-> infl, wrote |-> {}], value)
         IN  [infl |-> r.infl, wrote |-> r.wrote,
              updates |-> IF a # NoVRM THEN 1 ELSE 0, ret |-> "true"]

(* ------------------------------------------------------------------ *)
(* AudioAnalyzer (lifecycle)                                          *)
(* ------------------------------------------------------------------ *)

NoElement == "null"
AudioElements == {"el1", "el2"}

\* a freshly constructed AudioAnalyzer
NewAnalyzer(smoothing) ==
    [audioContext |-> "null", analyser |-> FALSE, source |-> NoElement,
     dataArray |-> FALSE, smoothingTimeConstant |-> smoothing]

\* initialize, from the creation of the analyser node to the end; bound is the
\* set of media elements that already have a MediaElementAudioSourceNode, and
\* createMediaElementSource throws InvalidStateError for such an element
initializeRest(an, el, bound) ==
    IF an.audioContext = "null"
    THEN [an |-> an, bound |-> bound, status |-> "throw"]
    ELSE LET a1 == [an EXCEPT !.analyser = TRUE]
         IN  IF a1.source = NoElement \/ a1.source # el
             THEN IF el \in bound
                  THEN [an |-> a1, bound |-> bound, status |-> "throw"]
                  ELSE [an |-> [a1 EXCEPT !.source = el, !.dataArray = TRUE],
                        bound |-> bound \cup {el}, status |-> "ok"]
             ELSE [an |-> [a1 EXCEPT !.dataArray = TRUE], bound |-> bound,
                   status |-> "ok"]

\* initialize up to its first suspension; created is what `new AudioContext()`
\* does when it is called: "running", "suspended" (autoplay policy) or "throw"
initialize(an, el, bound, created) ==
    IF an.audioContext = "null" /\ created = "throw"
    THEN [an |-> an, bound |-> bound, status |-> "throw"]
    ELSE LET a1 == IF an.audioContext = "null"
                   THEN [an EXCEPT !.audioContext = created] ELSE an
         IN  IF a1.audioContext = "suspended"
             THEN [an |-> a1, bound |-> bound, status |-> "await"]
             ELSE initializeRest(a1, el, bound)

\* analyze() yields a frame only with an analyser node and a data buffer
analyzeReady(an) == an.analyser /\ an.dataArray

\* mutant: dispose() forgets to close the audio context
disposeKeepsContext(an) ==
    [an EXCEPT !.source = NoElement, !.analyser = FALSE, !.dataArray = FALSE]

\* the context is closed and its reference dropped unless its state is
\* already 'closed'; a closed context that is held stays held
dispose(an) ==
    [an EXCEPT !.source = NoElement, !.analyser = FALSE,
               !.audioContext = IF an.audioContext = "closed" THEN "closed" ELSE "null",
               !.dataArray = FALSE]

isInitialized(an) ==
    an.audioContext # "null" /\ an.analyser /\ an.source # NoElement

(* ------------------------------------------------------------------ *)
(* AudioAnalyzer (analysis)                                           *)
(* ------------------------------------------------------------------ *)

\* defaults of the analyzer configuration, in dB
minDecibels == -90
maxDecibels == -10

\* audioContext.sampleRate, in Hz
sampleRate == 48000

\* the value -Infinity of a bin (digital silence) and of the initial maxValue
NegInfinity == -1000

\* the first loop of analyze(): sum of the squared normalized bins above
\* minDecibels, and their number
RECURSIVE VolumeLoop(_, _, _, _)
VolumeLoop(data, i, sum, count) ==
    IF i > Len(data) THEN [sum |-> sum, count |-> count]
    ELSE IF data[i] > minDecibels
         THEN LET normalized == Rat(data[i] - minDecibels, maxDecibels - minDecibels)
              IN  VolumeLoop(data, i + 1, RAdd(sum, RMul(normalized, normalized)),
                             count + 1)
         ELSE VolumeLoop(data, i + 1, sum, count)

\* the second loop of analyze(): index (from 0) of the first largest bin
RECURSIVE MaxIndexLoop(_, _, _, _)
MaxIndexLoop(data, i, maxValue, maxIndex) ==
    IF i > Len(data) THEN maxIndex
    ELSE IF data[i] > maxValue
         THEN MaxIndexLoop(data, i + 1, data[i], i - 1)
         ELSE MaxIndexLoop(data, i + 1, maxValue, maxIndex)

vowelFormants ==
    [aa |-> [f1 |-> 700, f2 |-> 1220],
     e  |-> [f1 |-> 530, f2 |-> 1840],
     ih |-> [f1 |-> 390, f2 |-> 1990],
     oh |-> [f1 |-> 570, f2 |-> 840],
     ou |-> [f1 |-> 370, f2 |-> 950]]

\* proximity scores are carried in units of 1/ProximityScale, rounded down
ProximityScale == 1000

\* 1 / (1 + (f1Diff + f2Diff) / 1000), in units of 1/ProximityScale
proximity(dominantFreq, vowel) ==
    LET f1Diff == Abs(dominantFreq - vowelFormants[vowel].f1)
        f2Diff == Abs(dominantFreq - vowelFormants[vowel].f2)
    IN  (1000 * ProximityScale) \div (1000 + f1Diff + f2Diff)

RECURSIVE TotalFrom(_, _, _)
TotalFrom(weights, i, sum) ==
    IF i > Len(VowelOrder) THEN sum
    ELSE TotalFrom(weights, i + 1, sum + weights[VowelOrder[i]])

\* variant: the proximity scores are returned without being normalized
calculateVowelWeightsRaw(dominantFreq) ==
    [v \in Vowels |-> Rat(proximity(dominantFreq, v), ProximityScale)]

\* the proximity scores, divided by their total when the total is positive
calculateVowelWeights(dominantFreq) ==
    LET weights == [v \in Vowels |-> proximity(dominantFreq, v)]
        total == TotalFrom(weights, 1, 0)
    IN  IF total > 0
        THEN [v \in Vowels |-> Rat(weights[v], total)]
        ELSE [v \in Vowels |-> Rat(weights[v], ProximityScale)]

\* what analyze() returns for the bins data that getFloatFrequencyData
\* delivered; volume is Math.sqrt(volumeSquared)
analyze(data) ==
    LET r == VolumeLoop(data, 1, Zero, 0)
        maxIndex == MaxIndexLoop(data, 1, NegInfinity, 0)
        nyquist == sampleRate \div 2
        dominantFrequency == (maxIndex * nyquist) \div Len(data)
    IN  [volumeSquared |-> IF r.count > 0 THEN RMul(r.sum, Rat(1, r.count)) ELSE Zero,
         count |-> r.count,
         frequencies |-> data,
         dominantFrequency |-> dominantFrequency,
         vowelWeights |-> calculateVowelWeights(dominantFrequency)]

(* ------------------------------------------------------------------ *)
(* State                                                              *)
(* ------------------------------------------------------------------ *)

VARIABLES
    vrm,              \* LipSyncEngine.vrm and MorphMapper.vrm (set together by setVRM)
    morphTargetMap,   \* MorphMapper.morphTargetMap
    influences,       \* morphTargetInfluences of every mesh: sink -> value
    exprWeights,      \* weights held by the avatars' expression managers
    config,           \* LipSyncEngine.config
    isRunning,        \* LipSyncEngine.isRunning
    animationFrame,   \* LipSyncEngine.animationFrame (0: none)
    lastUpdateTime,   \* LipSyncEngine.lastUpdateTime
    smoothedWeights,  \* LipSyncEngine.smoothedWeights
    analyzers,        \* every AudioAnalyzer instance constructed so far
    audioAnalyzer,    \* LipSyncEngine.audioAnalyzer: index into analyzers
    mediaBound,       \* media elements that have a MediaElementAudioSourceNode
    rafQueue,         \* handles of the pending requestAnimationFrame callbacks
    now,              \* performance.now(), in ms
    nticks,           \* number of animation frames delivered
    starts,           \* start() calls suspended at their await, oldest first (solo:
                      \* no other start() call was made while this one was suspended)
    seq,              \* the runTestSequence() call in flight
    stopFence,        \* stop() has returned and start() was not invoked since
    held,             \* the status objects getStatus() returned that a caller holds
    mgr,              \* the VRMManager that owns the engine
    ev                \* what the last operation did (observation only)

vars ==
    <<vrm, morphTargetMap, influences, exprWeights, config, isRunning,
      animationFrame, lastUpdateTime, smoothedWeights, analyzers, audioAnalyzer,
      mediaBound, rafQueue, now, nticks, starts, seq, stopFence, held, mgr, ev>>

mapperVars == <<vrm, morphTargetMap>>
meshVars == <<influences, exprWeights>>
loopVars == <<isRunning, animationFrame, lastUpdateTime, smoothedWeights, rafQueue>>
audioVars == <<analyzers, audioAnalyzer, mediaBound>>

\* the event types of VRMManager that the model follows
EventTypes == {"lipSyncFrame", "loaded"}

\* a freshly constructed VRMManager: no avatar, the render loop running, no
\* listener, no loadVRM() in flight; op and emitted tell the manager operation
\* that ran last and the events it emitted, in order
\* the face an ExpressionController drives: the weights of the expressions
\* registered in the avatar's expression manager and the influences of its
\* morph targets, all 0 on a fresh avatar
FaceExpressions == {"happy", "sad", "blink"}
FaceMorphs == {"mouth_smile"}
NeutralFace ==
    [expr |-> [n \in FaceExpressions |-> <<0, 1>>],
     morph |-> [n \in FaceMorphs |-> <<0, 1>>]]

\* the manager's AnimationPlayer: null until an avatar is loaded; a new player
\* has no animation, no current action and is not paused
NoPlayer ==
    [exists |-> FALSE, animations |-> {}, currentAction |-> "null", isPaused |-> FALSE]
NewPlayer == [NoPlayer EXCEPT !.exists = TRUE]

\* a VRM object is identified by the url it was loaded from and the number of
\* the load that created it; NoInstance stands for null
NoInstance == <<"null", 0>>

\* a freshly constructed VRMManager (without auto-load); inst is the VRM object
\* the manager holds, attached the VRM scenes that are children of the scene,
\* disposed the VRM objects whose resources were released, cache and made the
\* ResourceLoader's cache and the VRM objects it has created
NewManager ==
    [vrm |-> "null", isDisposed |-> FALSE, rendering |-> TRUE,
     eventListeners |-> [e \in EventTypes |-> << >>], loads |-> << >>,
     op |-> "none", emitted |-> << >>,
     inst |-> NoInstance, attached |-> {}, disposed |-> {}, made |-> {},
     face |-> NeutralFace, player |-> NoPlayer,
     cache |-> [u \in AvatarIds |-> NoInstance]]

\* the analyzer the engine holds
curAnalyzer == analyzers[audioAnalyzer]

(* ------------------------------------------------------------------ *)
(* Bounds and inputs                                                  *)
(* ------------------------------------------------------------------ *)

MaxTicks == 2
MaxStarts == 1
MaxAnalyzers == 2
MaxHeld == 1

\* time between two animation frames (120 Hz and 60 Hz displays), in ms
FrameDeltas == {8, 16}

OneHot(vowel, weight) == [v \in Vowels |-> IF v = vowel THEN weight ELSE Zero]

Frame(volume, vw) == [volume |-> volume, vowelWeights |-> vw]
NoFrame == Frame(Zero, ZeroWeights)

\* frames delivered by analyze() in the lifecycle specification
LifeFrames ==
    { Frame(<<1, 16>>, OneHot("aa", One)),
      Frame(<<1, 2>>, [v \in Vowels |->
                         IF v \in {"aa", "oh"} THEN <<1, 2>> ELSE Zero]) }

DefaultConfig ==
    [sensitivity |-> <<3, 4>>, smoothing |-> <<3, 4>>,
     minVolume |-> <<10, 1>>, updateInterval |-> 16]

(* ------------------------------------------------------------------ *)
(* LipSyncEngine                                                      *)
(* ------------------------------------------------------------------ *)

RampSteps == 10
TestSteps == 20

lerp(start, end, factor) == RAdd(start, RMul(RSub(end, start), factor))

\* mutant: the decay uses smoothing, not 1 - smoothing, as the lerp factor
smoothToSilenceSwapped(cfg, sw) ==
    [v \in Vowels |-> lerp(sw[v], Zero, cfg.smoothing)]

smoothToSilence(cfg, sw) ==
    [v \in Vowels |-> lerp(sw[v], Zero, RSub(One, cfg.smoothing))]

\* mutant: the threshold test is <= instead of <
belowOrAtMinVolume(cfg, analysis) ==
    RLe(RMul(analysis.volume, RInt(100)), cfg.minVolume)

\* volume * 100 < minVolume
belowMinVolume(cfg, analysis) ==
    RLt(RMul(analysis.volume, RInt(100)), cfg.minVolume)

\* mutant: the scaled volume is not clamped to 1
blendWeightsUnclamped(cfg, sw, analysis) ==
    LET scaledVolume == RMul(analysis.volume, cfg.sensitivity)
    IN  [v \in Vowels |->
            lerp(sw[v], RMul(analysis.vowelWeights[v], scaledVolume),
                 RSub(One, cfg.smoothing))]

blendWeights(cfg, sw, analysis) ==
    LET scaledVolume == RMin(One, RMul(analysis.volume, cfg.sensitivity))
    IN  [v \in Vowels |->
            lerp(sw[v], RMul(analysis.vowelWeights[v], scaledVolume),
                 RSub(One, cfg.smoothing))]

\* processLipSync: the smoothed vector it leaves and the branch it took
processLipSync(cfg, sw, analysis) ==
    IF belowMinVolume(cfg, analysis)
    THEN [sw |-> smoothToSilence(cfg, sw), branch |-> "silence"]
    ELSE [sw |-> blendWeights(cfg, sw, analysis), branch |-> "blend"]

\* requestAnimationFrame: a handle that is neither pending nor stored
NewHandle(q, af) ==
    CHOOSE h \in 1..(Cardinality(q) + 2) :
        /\ h \notin q /\ h # af
        /\ \A g \in 1..(h - 1) : g \in q \/ g = af

\* mutant: the throttle compares the clock, not the time since the last update
throttledByClock(cfg, t, lut) == t < cfg.updateInterval

throttled(cfg, t, lut) == t - lut < cfg.updateInterval

\* the end of a processed tick: the smoothed vector goes to the resolver
processed(h, q1, t, p, infl, expr) ==
    LET e == applyVowelWeights(vrm, morphTargetMap, infl, expr, p.sw)
    IN  [animationFrame |-> h, rafQueue |-> q1, lastUpdateTime |-> t,
         smoothedWeights |-> p.sw, infl |-> e.infl, expr |-> e.expr,
         branch |-> p.branch, analyzed |-> TRUE,
         wrote |-> e.wrote, exprSet |-> e.exprSet, strat |-> e.strat,
         updates |-> e.updates]

\* one run of animate() at time t; frame is what analyze() yields if it can
animate(run, af, q, lut, sw, infl, expr, an, frame, t) ==
    IF ~run
    THEN [animationFrame |-> af, rafQueue |-> q, lastUpdateTime |-> lut,
          smoothedWeights |-> sw, infl |-> infl, expr |-> expr,
          branch |-> "notrunning", analyzed |-> FALSE,
          wrote |-> {}, exprSet |-> {}, strat |-> "none", updates |-> 0]
    ELSE
      LET h == NewHandle(q, af)
          q1 == q \cup {h}
      IN  IF throttled(config, t, lut)
          THEN [animationFrame |-> h, rafQueue |-> q1, lastUpdateTime |-> lut,
                smoothedWeights |-> sw, infl |-> infl, expr |-> expr,
                branch |-> "throttled", analyzed |-> FALSE,
                wrote |-> {}, exprSet |-> {}, strat |-> "none", updates |-> 0]
          ELSE IF ~analyzeReady(an)
          THEN [animationFrame |-> h, rafQueue |-> q1, lastUpdateTime |-> t,
                smoothedWeights |-> sw, infl |-> infl, expr |-> expr,
                branch |-> "noframe", analyzed |-> TRUE,
                wrote |-> {}, exprSet |-> {}, strat |-> "none", updates |-> 0]
          ELSE processed(h, q1, t, processLipSync(config, sw, frame), infl, expr)

\* variant: stop() leaves the smoothed weights as they are
stoppedKeepsWeights(af, q, infl, expr, an) ==
    LET r == reset(vrm, morphTargetMap, infl, expr)
    IN  [isRunning |-> FALSE,
         animationFrame |-> 0,
         rafQueue |-> IF af # 0 THEN q \ {af} ELSE q,
         infl |-> r.infl, expr |-> r.expr,
         wrote |-> r.wrote, exprSet |-> r.exprSet, updates |-> r.updates,
         smoothedWeights |-> smoothedWeights,
         an |-> dispose(an)]

\* stop(): what it leaves of the fields it touches
stopped(af, q, infl, expr, an) ==
    LET r == reset(vrm, morphTargetMap, infl, expr)
    IN  [isRunning |-> FALSE,
         animationFrame |-> 0,
         rafQueue |-> IF af # 0 THEN q \ {af} ELSE q,
         infl |-> r.infl, expr |-> r.expr,
         wrote |-> r.wrote, exprSet |-> r.exprSet, updates |-> r.updates,
         smoothedWeights |-> ZeroWeights,
         an |-> dispose(an)]

\* the observation of an operation
Obs(op, branch, analyzed, wrote, exprSet, strat, updates, ret, fence, frame, arg) ==
    [op |-> op, branch |-> branch, analyzed |-> analyzed, wrote |-> wrote,
     exprSet |-> exprSet, strat |-> strat, updates |-> updates, ret |-> ret,
     fence |-> fence, frame |-> frame, arg |-> arg]

\* no runTestSequence() in flight; of a call in flight: the vowel and step it
\* is at, the testVowel calls it made for this vowel (log) and the vowels it
\* has finished (visited)
NoSeq ==
    [active |-> FALSE, vi |-> 0, i |-> 0, stopped |-> FALSE, log |-> << >>,
     visited |-> << >>]

\* a start() call is waiting for a promise that is already settled: its
\* continuation is a microtask, which runs before any callback or timer
MicroPending == \E k \in 1..Len(starts) : starts[k].pc = "micro"

RemoveAt(sq, k) == SubSeq(sq, 1, k - 1) \o SubSeq(sq, k + 1, Len(sq))

Init ==
    /\ vrm = NoVRM
    /\ morphTargetMap = EmptyMap
    /\ influences = [s \in Sinks |-> Zero]
    /\ exprWeights = [k \in ExprKeys |-> Zero]
    /\ config = DefaultConfig
    /\ isRunning = FALSE
    /\ animationFrame = 0
    /\ lastUpdateTime = 0
    /\ smoothedWeights = ZeroWeights
    /\ analyzers = <<NewAnalyzer(DefaultConfig.smoothing)>>
    /\ audioAnalyzer = 1
    /\ mediaBound = {}
    /\ rafQueue = {}
    /\ now = 0
    /\ nticks = 0
    /\ starts = << >>
    /\ seq = NoSeq
    /\ stopFence = FALSE
    /\ held = << >>
    /\ mgr = NewManager
    /\ ev = Obs("init", "none", FALSE, {}, {}, "none", 0, "void", FALSE, NoFrame, "none")

\* LipSyncEngine.setVRM(vrm)
SetVRM(a) ==
    /\ vrm' = a
    /\ morphTargetMap' = setVRM(morphTargetMap, a)
    /\ ev' = Obs("setVRM", "none", FALSE, {}, {}, "none", 0, "void", stopFence, NoFrame, "none")
    /\ UNCHANGED <<meshVars, config, loopVars, audioVars, now, nticks, starts, seq,
                   stopFence, held>>

\* mutant: the check for a missing VRM model is left out
startRejectedNever == FALSE

\* start() returns false at once: no VRM model is set
startRejected == vrm = NoVRM

\* LipSyncEngine.start(audioElement), up to its await, while fewer than
\* bound calls of start() are awaiting
StartUpTo(el, created, bound) ==
    /\ Len(starts) < bound
    /\ IF startRejected
       THEN /\ ev' = Obs("start", "novrm", FALSE, {}, {}, "none", 0, "false", stopFence,
                         NoFrame, "none")
            /\ UNCHANGED <<mapperVars, meshVars, config, loopVars, audioVars, now,
                           nticks, starts, seq>>
       ELSE
         \E st \in {stopped(animationFrame, rafQueue, influences, exprWeights,
                             analyzers[audioAnalyzer])} :
         \E r \in {initialize(IF isRunning THEN st.an ELSE analyzers[audioAnalyzer],
                                el, mediaBound, created)} :
             /\ isRunning' = FALSE
             /\ animationFrame' = IF isRunning THEN st.animationFrame ELSE animationFrame
             /\ rafQueue' = IF isRunning THEN st.rafQueue ELSE rafQueue
             /\ influences' = IF isRunning THEN st.infl ELSE influences
             /\ exprWeights' = IF isRunning THEN st.expr ELSE exprWeights
             /\ smoothedWeights' = IF isRunning THEN st.smoothedWeights ELSE smoothedWeights
             /\ analyzers' = [analyzers EXCEPT ![audioAnalyzer] = r.an]
             /\ mediaBound' = r.bound
             /\ starts' = Append([k \in 1..Len(starts) |-> [starts[k] EXCEPT !.solo = FALSE]],
                    [pc |-> IF r.status = "await" THEN "resume" ELSE "micro",
                     el |-> el, an |-> audioAnalyzer, ok |-> r.status = "ok",
                     restart |-> isRunning, solo |-> starts = << >>])
             /\ ev' = Obs("start", IF isRunning THEN "restart" ELSE "fresh", FALSE,
                          IF isRunning THEN st.wrote ELSE {},
                          IF isRunning THEN st.exprSet ELSE {}, "none",
                          IF isRunning THEN st.updates ELSE 0, "pending", stopFence,
                          NoFrame, "none")
             /\ UNCHANGED <<mapperVars, config, lastUpdateTime, audioAnalyzer, now,
                            nticks, seq>>
    /\ stopFence' = FALSE
    /\ UNCHANGED held

StartCall(el, created) == StartUpTo(el, created, MaxStarts)

\* variant: isRunning is set before the await and stays set when it throws
startFailureLeavesRunning(run) == [isRunning |-> TRUE, ret |-> "false"]

\* the catch block of start(): the error is logged and false is returned;
\* isRunning is not assigned
startFailure(run) == [isRunning |-> run, ret |-> "false"]

\* the rest of start() after the await: initialization succeeded or threw
Resume(k, ok, frame, op) ==
    LET s == starts[k]
    IN  /\ starts' = RemoveAt(starts, k)
        /\ IF ok
           THEN \E a \in {animate(TRUE, animationFrame, rafQueue, lastUpdateTime,
                                 smoothedWeights, influences, exprWeights,
                                 analyzers'[audioAnalyzer], frame, now)} :
                    /\ isRunning' = TRUE
                    /\ animationFrame' = a.animationFrame
                    /\ rafQueue' = a.rafQueue
                    /\ lastUpdateTime' = a.lastUpdateTime
                    /\ smoothedWeights' = a.smoothedWeights
                    /\ influences' = a.infl
                    /\ exprWeights' = a.expr
                    /\ ev' = Obs(op, a.branch, a.analyzed, a.wrote, a.exprSet, a.strat,
                                 a.updates, "true", stopFence,
                                 IF a.branch \in {"silence", "blend"} THEN frame ELSE NoFrame, s.restart)
           ELSE \E f \in {startFailure(isRunning)} :
                    /\ isRunning' = f.isRunning
                    /\ ev' = Obs(op, "failed", FALSE, {}, {}, "none", 0, f.ret, stopFence,
                                 NoFrame, s.restart)
                    /\ UNCHANGED <<meshVars, animationFrame, lastUpdateTime,
                                   smoothedWeights, rafQueue>>
        /\ UNCHANGED <<mapperVars, config, audioAnalyzer, now, nticks, seq, stopFence, held>>

\* start() resumes after awaiting an initialize() that ran to its end at once
StartContinue(frame) ==
    /\ MicroPending
    /\ LET k == CHOOSE j \in 1..Len(starts) :
                   /\ starts[j].pc = "micro"
                   /\ \A g \in 1..(j - 1) : starts[g].pc # "micro"
       IN  /\ UNCHANGED <<analyzers, mediaBound>>
           /\ Resume(k, starts[k].ok, frame, "startContinue")

\* audioContext.resume() settles: initialize() runs to its end and start() resumes
StartResumed(k, resolved, frame) ==
    /\ ~MicroPending
    /\ k \in 1..Len(starts)
    /\ starts[k].pc = "resume"
    /\ LET s == starts[k]
           an0 == analyzers[s.an]
           an1 == IF resolved /\ an0.audioContext # "null"
                  THEN [an0 EXCEPT !.audioContext = "running"] ELSE an0
           r == IF resolved THEN initializeRest(an1, s.el, mediaBound)
                ELSE [an |-> an0, bound |-> mediaBound, status |-> "throw"]
       IN  /\ analyzers' = [analyzers EXCEPT ![s.an] = r.an]
           /\ mediaBound' = r.bound
           /\ Resume(k, r.status = "ok", frame, "startResumed")

\* LipSyncEngine.stop(); ev.arg keeps the smoothed weights it found
Stop ==
    \E st \in {stopped(animationFrame, rafQueue, influences, exprWeights,
                        analyzers[audioAnalyzer])} :
        /\ isRunning' = st.isRunning
        /\ animationFrame' = st.animationFrame
        /\ rafQueue' = st.rafQueue
        /\ influences' = st.infl
        /\ exprWeights' = st.expr
        /\ smoothedWeights' = st.smoothedWeights
        /\ analyzers' = [analyzers EXCEPT ![audioAnalyzer] = st.an]
        /\ stopFence' = TRUE
        /\ UNCHANGED held
        /\ seq' = IF seq.active THEN [seq EXCEPT !.stopped = TRUE] ELSE seq
        /\ ev' = Obs("stop", "none", FALSE, st.wrote, st.exprSet, "none", st.updates,
                     "void", stopFence, NoFrame, smoothedWeights)
        /\ UNCHANGED <<mapperVars, config, lastUpdateTime, audioAnalyzer, mediaBound,
                       now, nticks, starts>>

\* the browser delivers the animation frame with handle h, dt ms after the last
Tick(h, dt, frame) ==
    /\ ~MicroPending
    /\ nticks < MaxTicks
    /\ h \in rafQueue
    /\ now' = now + dt
    /\ nticks' = nticks + 1
    /\ \E a \in {animate(isRunning, animationFrame, rafQueue \ {h}, lastUpdateTime,
                        smoothedWeights, influences, exprWeights,
                        analyzers[audioAnalyzer], frame, now')} :
           /\ animationFrame' = a.animationFrame
           /\ rafQueue' = a.rafQueue
           /\ lastUpdateTime' = a.lastUpdateTime
           /\ smoothedWeights' = a.smoothedWeights
           /\ influences' = a.infl
           /\ exprWeights' = a.expr
           /\ ev' = Obs("tick", a.branch, a.analyzed, a.wrote, a.exprSet, a.strat,
                        a.updates, "void", stopFence,
                        IF a.branch \in {"silence", "blend"} THEN frame ELSE NoFrame, "none")
    /\ UNCHANGED <<mapperVars, config, isRunning, audioVars, starts, seq, stopFence, held>>

\* Object.values(smoothedWeights).reduce((sum, w) => sum + w, 0)
RECURSIVE SumFrom(_, _, _)
SumFrom(sw, i, sum) ==
    IF i > Len(VowelOrder) THEN sum
    ELSE SumFrom(sw, i + 1, RAdd(sum, sw[VowelOrder[i]]))

\* the reduce of getStatus that finds the dominant vowel; max starts as
\* {vowel: 'sil', weight: 0} and a later entry wins only with a larger weight
RECURSIVE DominantFrom(_, _, _)
DominantFrom(sw, i, max) ==
    IF i > Len(VowelOrder) THEN max
    ELSE DominantFrom(sw, i + 1,
             IF RLt(max.weight, sw[VowelOrder[i]])
             THEN [vowel |-> VowelOrder[i], weight |-> sw[VowelOrder[i]]]
             ELSE max)

\* variant: the status carries the engine's own smoothed-weights object
getStatusLive(run, sw) ==
    [isActive |-> run,
     currentVolume |-> SumFrom(sw, 1, Zero),
     currentVowel |-> DominantFrom(sw, 1, [vowel |-> "sil", weight |-> Zero]).vowel,
     vowelWeights |-> [live |-> TRUE, val |-> sw]]

\* getStatus(): vowelWeights is a new object with the entries of the smoothed
\* weights (live: the object is the engine's own; val: the entries of a new one)
getStatus(run, sw) ==
    [isActive |-> run,
     currentVolume |-> SumFrom(sw, 1, Zero),
     currentVowel |-> DominantFrom(sw, 1, [vowel |-> "sil", weight |-> Zero]).vowel,
     vowelWeights |-> [live |-> FALSE, val |-> sw]]

\* what a holder of status object st reads in st.vowelWeights when the
\* engine's smoothed weights are sw
Contents(st, sw) == IF st.vowelWeights.live THEN sw ELSE st.vowelWeights.val

\* LipSyncEngine.getStatus(); the caller keeps the object and lets go of the
\* oldest one it holds when it holds MaxHeld
GetStatus ==
    /\ held' = (IF Len(held) < MaxHeld THEN held ELSE Tail(held))
                  \o <<[status |-> getStatus(isRunning, smoothedWeights),
                        at |-> smoothedWeights, touched |-> FALSE]>>
    /\ ev' = Obs("getStatus", "none", FALSE, {}, {}, "none", 0, "status", stopFence,
                 NoFrame, "none")
    /\ UNCHANGED <<mapperVars, meshVars, config, loopVars, audioVars, now, nticks,
                   starts, seq, stopFence>>

\* the caller assigns status.vowelWeights[vowel] = value on the k-th object it holds
MutateStatus(k, vowel, value) ==
    /\ k \in 1..Len(held)
    /\ IF held[k].status.vowelWeights.live
       THEN /\ smoothedWeights' = [smoothedWeights EXCEPT ![vowel] = value]
            /\ held' = [held EXCEPT ![k].touched = TRUE]
       ELSE /\ held' = [held EXCEPT ![k].status.vowelWeights.val[vowel] = value,
                                    ![k].touched = TRUE]
            /\ UNCHANGED smoothedWeights
    /\ ev' = Obs("mutateStatus", "none", FALSE, {}, {}, "none", 0, "void", stopFence,
                 NoFrame, <<vowel, value>>)
    /\ UNCHANGED <<mapperVars, meshVars, config, isRunning, animationFrame,
                   lastUpdateTime, rafQueue, audioVars, now, nticks, starts, seq,
                   stopFence>>

\* variant: the analyzer in use is given the new smoothing value
retuneAnalyzer(ans, cur, smoothing) ==
    [analyzers |-> [ans EXCEPT ![cur].smoothingTimeConstant = smoothing],
     audioAnalyzer |-> cur]

\* this.audioAnalyzer = new AudioAnalyzer({..., smoothingTimeConstant})
replaceAnalyzer(ans, cur, smoothing) ==
    [analyzers |-> Append(ans, NewAnalyzer(smoothing)), audioAnalyzer |-> Len(ans) + 1]

\* Object.assign(this.config, partial)
assignConfig(cfg, partial) ==
    [f \in DOMAIN cfg |-> IF f \in DOMAIN partial THEN partial[f] ELSE cfg[f]]

\* LipSyncEngine.updateConfig(partial); partial maps the provided fields to
\* their values
UpdateConfig(partial) ==
    /\ config' = assignConfig(config, partial)
    /\ IF "smoothing" \in DOMAIN partial
       THEN /\ Len(analyzers) < MaxAnalyzers
            /\ \E r \in {replaceAnalyzer(analyzers, audioAnalyzer, config'.smoothing)} :
                   /\ analyzers' = r.analyzers
                   /\ audioAnalyzer' = r.audioAnalyzer
       ELSE UNCHANGED <<analyzers, audioAnalyzer>>
    /\ ev' = Obs("updateConfig", "none", FALSE, {}, {}, "none", 0, "void", stopFence,
                 NoFrame, partial)
    /\ UNCHANGED <<mapperVars, meshVars, loopVars, mediaBound, now, nticks, starts,
                   seq, stopFence, held>>

\* variant: the weight is given to every vowel
testWeightsAll(vowel, weight) == [v \in Vowels |-> weight]

\* names that the `in` operator finds on every object literal because
\* Object.prototype carries them; assigning to one creates an own property
ObjectPrototypeKeys == {"toString", "valueOf", "constructor", "hasOwnProperty"}

\* the vector testVowel builds: `vowel in weights` guards the assignment, and
\* it holds for the five own keys and for the inherited names
testWeights(vowel, weight) ==
    LET keys == IF vowel \in Vowels \cup ObjectPrototypeKeys
                THEN Vowels \cup {vowel} ELSE Vowels
    IN  [v \in keys |-> IF v = vowel THEN weight ELSE Zero]

\* testVowel(vowel, weight): the resolver effect
testVowel(vowel, weight) ==
    IF vrm = NoVRM
    THEN Effect(influences, exprWeights, {}, {}, 0, "none")
    ELSE applyVowelWeights(vrm, morphTargetMap, influences, exprWeights,
                           testWeights(vowel, weight))

\* LipSyncEngine.testVowel(vowel, weight)
TestVowel(vowel, weight) ==
    \E e \in {testVowel(vowel, weight)} :
        /\ influences' = e.infl
        /\ exprWeights' = e.expr
        /\ ev' = Obs("testVowel", "none", FALSE, e.wrote, e.exprSet, e.strat, e.updates,
                     "void", stopFence, NoFrame, <<vowel, weight>>)
        /\ UNCHANGED <<mapperVars, config, loopVars, audioVars, now, nticks, starts, seq,
                       stopFence, held>>

\* variant: the ramp goes up and stays at 1
rampWeightUpOnly(i) == Rat(IF i <= RampSteps THEN i ELSE RampSteps, RampSteps)

\* the weight of step i of the ramp 0 -> 1 -> 0
rampWeight(i) == IF i <= RampSteps THEN Rat(i, RampSteps) ELSE Rat(TestSteps - i, RampSteps)

\* one testVowel step of runTestSequence for vowel number vi, step i
SeqTestVowel(vi, i, fence) ==
    \E e \in {testVowel(VowelOrder[vi], rampWeight(i))} :
        /\ influences' = e.infl
        /\ exprWeights' = e.expr
        /\ ev' = Obs("seqTestVowel", "none", FALSE, e.wrote, e.exprSet, e.strat,
                     e.updates, "void", fence, NoFrame, <<VowelOrder[vi], rampWeight(i)>>)

\* LipSyncEngine.runTestSequence(), up to its first await
RunTestSequence ==
    /\ ~seq.active
    /\ SeqTestVowel(1, 0, FALSE)
    /\ seq' = [active |-> TRUE, vi |-> 1, i |-> 1, stopped |-> FALSE,
               log |-> << <<VowelOrder[1], rampWeight(0)>> >>, visited |-> << >>]
    /\ UNCHANGED <<mapperVars, config, loopVars, audioVars, now, nticks, starts,
                   stopFence, held>>

\* where runTestSequence is after the step it takes from position s
seqAfterStep(s) ==
    IF s.vi > Len(VowelOrder) THEN NoSeq
    ELSE IF s.i <= TestSteps
    THEN [s EXCEPT !.i = s.i + 1,
                   !.log = Append(@, <<VowelOrder[s.vi], rampWeight(s.i)>>)]
    ELSE [s EXCEPT !.vi = s.vi + 1, !.i = 0, !.log = << >>,
                   !.visited = Append(@, VowelOrder[s.vi])]

\* a timer of runTestSequence fires, seen from the loops alone
SeqTimer ==
    /\ ~MicroPending
    /\ seq.active
    /\ seq' = seqAfterStep(seq)

\* a timer of runTestSequence fires: the next step of the loops
SeqStep ==
    /\ SeqTimer
    /\ IF seq.vi > Len(VowelOrder)
       THEN /\ ev' = Obs("seqDone", "none", FALSE, {}, {}, "none", 0, "void",
                         seq.stopped, NoFrame, "none")
            /\ UNCHANGED meshVars
       ELSE IF seq.i <= TestSteps
       THEN SeqTestVowel(seq.vi, seq.i, seq.stopped)
       ELSE \E r \in {reset(vrm, morphTargetMap, influences, exprWeights)} :
                /\ influences' = r.infl
                /\ exprWeights' = r.expr
                /\ ev' = Obs("seqReset", "none", FALSE, r.wrote, r.exprSet, "reset",
                             r.updates, "void", seq.stopped, NoFrame, "none")
    /\ UNCHANGED <<mapperVars, config, loopVars, audioVars, now, nticks, starts,
                   stopFence, held>>

(* ------------------------------------------------------------------ *)
(* VRMManager                                                         *)
(* ------------------------------------------------------------------ *)

MaxLoads == 1

\* the manager after an operation op that emitted the events es
Did(m, op, es) == [m EXCEPT !.op = op, !.emitted = es]

\* the engine acts on its own (a tick, a timer): no manager operation runs
EngineOnly == mgr' = Did(mgr, "none", << >>)

\* the events of lipSync.stop() and animation.stop()
StopEvents == <<"lipSyncStop", "animationEnd">>

\* VRMManager.disposeVRM() on the manager's own fields: the avatar's scene is
\* removed from the scene, its resources are released and the reference is
\* cleared; the ResourceLoader's cache is not touched
disposeVRM(m) ==
    IF m.vrm = NoVRM THEN m
    ELSE [m EXCEPT !.vrm = NoVRM, !.inst = NoInstance,
                   !.attached = m.attached \ {m.inst},
                   !.disposed = m.disposed \cup {m.inst},
                   !.player = NoPlayer]

\* ResourceLoader.loadVRM(url) at its call: the cached VRM object if there is
\* one for the url, else a load is started (NoInstance)
cachedVRM(m, url) == m.cache[url]

\* the VRM object a finished load of url creates
NewInstance(m, url) == <<url, Cardinality({i \in m.made : i[1] = url}) + 1>>

\* VRMManager.loadVRM(url), up to its await, while fewer than bound loads are
\* in flight; a is the avatar the url holds and disposeVRM() unloads the
\* current avatar: it stops the engine and clears the manager's reference,
\* and it does not call setVRM on the engine
LoadUpTo(a, bound) ==
    /\ Len(mgr.loads) < bound
    /\ IF mgr.vrm # NoVRM
       THEN /\ Stop
            /\ mgr' = [Did(disposeVRM(mgr), "loadVRM", <<"loading">> \o StopEvents)
                          EXCEPT !.loads = Append(mgr.loads,
                                                  [url |-> a, hit |-> cachedVRM(mgr, a)])]
       ELSE /\ mgr' = [Did(mgr, "loadVRM", <<"loading">>)
                          EXCEPT !.loads = Append(mgr.loads,
                                                  [url |-> a, hit |-> cachedVRM(mgr, a)])]
            /\ ev' = Obs("loadVRM", "none", FALSE, {}, {}, "none", 0, "pending",
                         stopFence, NoFrame, "none")
            /\ UNCHANGED <<mapperVars, meshVars, config, loopVars, audioVars, now,
                           nticks, starts, seq, stopFence, held>>

LoadVRM(a) == LoadUpTo(a, MaxLoads)

\* resourceLoader.loadVRM settles (a cached VRM object cannot fail): the VRM
\* object is cached if it is new, its scene is added to the scene if the
\* scene still exists, it is stored and handed to the engine; or the error is
\* emitted and rethrown
LoadSettled(k, ok) ==
    /\ k \in 1..Len(mgr.loads)
    /\ mgr.loads[k].hit # NoInstance => ok
    /\ IF ok
       THEN \E i \in {IF mgr.loads[k].hit # NoInstance THEN mgr.loads[k].hit
                      ELSE NewInstance(mgr, mgr.loads[k].url)} :
            /\ SetVRM(mgr.loads[k].url)
            /\ mgr' = [Did(mgr, "loadVRM", <<"loaded">>)
                          EXCEPT !.vrm = mgr.loads[k].url, !.inst = i,
                                 !.attached = IF mgr.rendering THEN mgr.attached \cup {i}
                                              ELSE mgr.attached,
                                 !.made = mgr.made \cup {i},
                                 !.player = NewPlayer,
                                 !.cache = [mgr.cache EXCEPT ![mgr.loads[k].url] = i],
                                 !.loads = RemoveAt(mgr.loads, k)]
       ELSE /\ mgr' = [Did(mgr, "loadVRM", <<"error">>)
                          EXCEPT !.loads = RemoveAt(mgr.loads, k)]
            /\ ev' = Obs("loadVRM", "failed", FALSE, {}, {}, "none", 0, "throw",
                         stopFence, NoFrame, "none")
            /\ UNCHANGED <<mapperVars, meshVars, config, loopVars, audioVars, now,
                           nticks, starts, seq, stopFence, held>>

\* VRMManager.lipSync.start(audioElement), up to the await inside the engine
LipSyncStart(el, created) ==
    IF mgr.vrm = NoVRM
    THEN /\ mgr' = Did(mgr, "lipSync.start", << >>)
         /\ ev' = Obs("lipSync.start", "novrm", FALSE, {}, {}, "none", 0, "false",
                      stopFence, NoFrame, "none")
         /\ UNCHANGED <<mapperVars, meshVars, config, loopVars, audioVars, now,
                        nticks, starts, seq, stopFence, held>>
    ELSE /\ StartCall(el, created)
         /\ mgr' = Did(mgr, "lipSync.start", << >>)

\* the engine's start() resumes and lipSync.start() after it: lipSyncStart is
\* emitted when the engine reports success
LipSyncStartContinue(frame) ==
    /\ StartContinue(frame)
    /\ mgr' = Did(mgr, "lipSync.start",
                  IF ev'.ret = "true" THEN <<"lipSyncStart">> ELSE << >>)

\* VRMManager.lipSync.stop()
LipSyncStop ==
    /\ Stop
    /\ mgr' = Did(mgr, "lipSync.stop", <<"lipSyncStop">>)

\* VRMManager.lipSync.testVowel(vowel, weight)
LipSyncTestVowel(vowel, weight) ==
    /\ TestVowel(vowel, weight)
    /\ mgr' = Did(mgr, "lipSync.testVowel", << >>)

\* the render loop delivers a frame to VRMManager.onFrame; the status that a
\* lipSyncFrame event carries is left in ev.arg
OnFrame ==
    /\ mgr.rendering
    /\ LET emits == mgr.vrm # NoVRM /\ isRunning
           status == getStatus(isRunning, smoothedWeights)
       IN  /\ mgr' = Did(mgr, "onFrame", IF emits THEN <<"lipSyncFrame">> ELSE << >>)
           /\ ev' = Obs("onFrame", IF mgr.vrm = NoVRM THEN "novrm" ELSE "none", FALSE,
                        {}, {}, "none", IF mgr.vrm = NoVRM THEN 0 ELSE 1, "void",
                        stopFence, NoFrame,
                        IF emits THEN <<status.currentVolume, status.currentVowel>>
                        ELSE "none")
    /\ UNCHANGED <<mapperVars, meshVars, config, loopVars, audioVars, now, nticks,
                   starts, seq, stopFence, held>>

\* VRMManager.dispose(): stops the engine, unloads the avatar, stops the render
\* loop and clears the listeners
ManagerDispose ==
    IF mgr.isDisposed
    THEN /\ mgr' = Did(mgr, "dispose", << >>)
         /\ ev' = Obs("dispose", "none", FALSE, {}, {}, "none", 0, "void", stopFence,
                      NoFrame, "none")
         /\ UNCHANGED <<mapperVars, meshVars, config, loopVars, audioVars, now,
                        nticks, starts, seq, stopFence, held>>
    ELSE /\ Stop
         /\ mgr' = [Did(disposeVRM(mgr), "dispose",
                        StopEvents \o (IF mgr.vrm # NoVRM THEN StopEvents ELSE << >>))
                       EXCEPT !.rendering = FALSE, !.isDisposed = TRUE,
                              !.attached = {},
                              !.eventListeners = [e \in EventTypes |-> << >>]]

\* listener functions, and what a listener does when it is called: nothing,
\* or one call of on() or off() for the event type that is being delivered
ListenerIds == {"l1", "l2", "l3"}
ListenerActs ==
    {<<"none", "none">>} \cup {<<c, l>> : c \in {"on", "off"}, l \in ListenerIds}

\* the slot of a Set entry that was deleted while the Set is iterated
Deleted == "deleted"

\* Set.prototype.add and Set.prototype.delete on the entry list of a Set
setAdd(entries, l) ==
    IF \E k \in 1..Len(entries) : entries[k] = l THEN entries ELSE Append(entries, l)

setDelete(entries, l) ==
    [k \in 1..Len(entries) |-> IF entries[k] = l THEN Deleted ELSE entries[k]]

compact(entries) == SelectSeq(entries, LAMBDA x : x # Deleted)

\* listeners.forEach((listener) => listener(data)): the Set is visited in
\* insertion order while the listeners change it; an entry deleted before it
\* is reached is skipped, an entry added during the visit is reached
RECURSIVE forEachListener(_, _, _, _)
forEachListener(entries, p, script, calls) ==
    IF p > Len(entries) THEN [entries |-> entries, calls |-> calls]
    ELSE IF entries[p] = Deleted THEN forEachListener(entries, p + 1, script, calls)
    ELSE LET l == entries[p]
             act == script[l]
             after == IF act[1] = "on" THEN setAdd(entries, act[2])
                      ELSE IF act[1] = "off" THEN setDelete(entries, act[2])
                      ELSE entries
         IN  forEachListener(after, p + 1, script, Append(calls, l))

\* VRMManager.on(event, listener)
On(event, l) ==
    /\ mgr' = [Did(mgr, "on", << >>)
                  EXCEPT !.eventListeners[event] = setAdd(mgr.eventListeners[event], l)]
    /\ ev' = Obs("on", "none", FALSE, {}, {}, "none", 0, "void", stopFence, NoFrame,
                 <<event, l>>)
    /\ UNCHANGED <<mapperVars, meshVars, config, loopVars, audioVars, now, nticks,
                   starts, seq, stopFence, held>>

\* VRMManager.off(event, listener)
Off(event, l) ==
    /\ mgr' = [Did(mgr, "off", << >>)
                  EXCEPT !.eventListeners[event] =
                            compact(setDelete(mgr.eventListeners[event], l))]
    /\ ev' = Obs("off", "none", FALSE, {}, {}, "none", 0, "void", stopFence, NoFrame,
                 <<event, l>>)
    /\ UNCHANGED <<mapperVars, meshVars, config, loopVars, audioVars, now, nticks,
                   starts, seq, stopFence, held>>

\* VRMManager.emit(event, data), with what each listener does when called;
\* ev.arg keeps the listeners registered at the emit and the calls made
Emit(event, script) ==
    /\ \E r \in {forEachListener(mgr.eventListeners[event], 1, script, << >>)} :
           /\ mgr' = [Did(mgr, "emit", <<event>>)
                         EXCEPT !.eventListeners[event] = compact(r.entries)]
           /\ ev' = Obs("emit", "none", FALSE, {}, {}, "none", 0, "void", stopFence,
                        NoFrame,
                        [event |-> event, registered |-> mgr.eventListeners[event],
                         calls |-> r.calls])
    /\ UNCHANGED <<mapperVars, meshVars, config, loopVars, audioVars, now, nticks,
                   starts, seq, stopFence, held>>

\* AnimationPlayer.play(name): a name that is not loaded is logged and
\* nothing changes; else the clip's action becomes the current one
playerPlay(p, name) ==
    IF name \notin p.animations THEN p
    ELSE [p EXCEPT !.currentAction = name, !.isPaused = FALSE]

\* AnimationPlayer.stop()
playerStop(p) == [p EXCEPT !.currentAction = "null", !.isPaused = FALSE]

\* AnimationPlayer.pause()
playerPause(p) ==
    IF p.currentAction # "null" /\ ~p.isPaused THEN [p EXCEPT !.isPaused = TRUE] ELSE p

\* a step of the manager's animation facade: the engine is not touched;
\* ev.arg keeps the animation name
AnimationStep(op, name) ==
    /\ ev' = Obs(op, "none", FALSE, {}, {}, "none", 0, "void", stopFence, NoFrame, name)
    /\ UNCHANGED <<mapperVars, meshVars, config, loopVars, audioVars, now, nticks,
                   starts, seq, stopFence, held>>

\* a Mixamo animation finishes loading: its clip is stored under name
AnimationLoaded(name) ==
    /\ mgr.player.exists
    /\ mgr' = [Did(mgr, "animation.loadMixamo", << >>)
                  EXCEPT !.player.animations = mgr.player.animations \cup {name}]
    /\ AnimationStep("animation.loadMixamo", name)

\* VRMManager.animation.play(name)
AnimationPlay(name) ==
    /\ mgr' = IF ~mgr.player.exists THEN Did(mgr, "animation.play", << >>)
              ELSE [Did(mgr, "animation.play", <<"animationStart">>)
                      EXCEPT !.player = playerPlay(mgr.player, name)]
    /\ AnimationStep("animation.play", name)

\* VRMManager.animation.stop()
AnimationStop ==
    /\ mgr' = [Did(mgr, "animation.stop", <<"animationEnd">>)
                  EXCEPT !.player = IF mgr.player.exists THEN playerStop(mgr.player)
                                    ELSE mgr.player]
    /\ AnimationStep("animation.stop", "none")

\* VRMManager.animation.pause()
AnimationPause ==
    /\ mgr' = [Did(mgr, "animation.pause", << >>)
                  EXCEPT !.player = IF mgr.player.exists THEN playerPause(mgr.player)
                                    ELSE mgr.player]
    /\ AnimationStep("animation.pause", "none")

(* ------------------------------------------------------------------ *)
(* ExpressionController                                               *)
(* ------------------------------------------------------------------ *)

\* initializePresets: the entries of each preset in their order
presets ==
    [name \in {"happy", "sad", "angry", "surprised", "neutral", "blink", "blinkLeft",
               "blinkRight", "smile", "open"} |->
       CASE name \in {"happy", "sad", "angry", "surprised"} ->
              [expressions |-> << <<name, One>>, <<"blink", Zero>> >>,
               morphTargets |-> << >>]
         [] name \in {"neutral", "blink", "blinkLeft", "blinkRight"} ->
              [expressions |-> << <<name, One>> >>, morphTargets |-> << >>]
         [] name = "smile" ->
              [expressions |-> << >>, morphTargets |-> << <<"mouth_smile", One>> >>]
         [] name = "open" ->
              [expressions |-> << >>, morphTargets |-> << <<"mouth_open", One>> >>]]

\* expressionManager.setValue(name, weight) on the face: a name that is not
\* registered changes nothing
faceSetValue(face, name, weight) ==
    IF name \in DOMAIN face.expr THEN [face EXCEPT !.expr[name] = weight] ELSE face

\* setMorphTargetDirect(morphName, weight)
setMorphTargetDirect(face, morphName, weight) ==
    IF morphName \in DOMAIN face.morph THEN [face EXCEPT !.morph[morphName] = weight]
    ELSE face

RECURSIVE PresetExpressionLoop(_, _, _, _)
PresetExpressionLoop(face, entries, i, weight) ==
    IF i > Len(entries) THEN face
    ELSE PresetExpressionLoop(faceSetValue(face, entries[i][1], RMul(entries[i][2], weight)),
                              entries, i + 1, weight)

RECURSIVE PresetMorphLoop(_, _, _, _)
PresetMorphLoop(face, entries, i, weight) ==
    IF i > Len(entries) THEN face
    ELSE PresetMorphLoop(setMorphTargetDirect(face, entries[i][1],
                                              RMul(entries[i][2], weight)),
                         entries, i + 1, weight)

\* applyPreset(presetName, weight)
applyPreset(face, presetName, weight) ==
    PresetMorphLoop(PresetExpressionLoop(face, presets[presetName].expressions, 1, weight),
                    presets[presetName].morphTargets, 1, weight)

\* setExpression(name, weight): the weight is clamped; a preset is applied,
\* any other name goes to the expression manager
setExpression(face, name, weight) ==
    IF name \in DOMAIN presets THEN applyPreset(face, name, clamp01(weight))
    ELSE faceSetValue(face, name, clamp01(weight))

\* ExpressionController.reset(): every expression weight and every morph
\* target influence is set to 0
expressionReset(face) ==
    [expr |-> [n \in DOMAIN face.expr |-> Zero],
     morph |-> [n \in DOMAIN face.morph |-> Zero]]

RECURSIVE BlendLoop(_, _, _)
BlendLoop(face, entries, i) ==
    IF i > Len(entries) THEN face
    ELSE BlendLoop(setExpression(face, entries[i][1], entries[i][2]), entries, i + 1)

\* blendExpressions(expressions); entries are the name/weight pairs of the
\* object in its key order
blendExpressions(face, entries) == BlendLoop(expressionReset(face), entries, 1)

\* ExpressionController.setExpression(name, weight), called on the controller
SetExpression(name, weight) ==
    /\ mgr' = [Did(mgr, "setExpression", << >>)
                  EXCEPT !.face = setExpression(mgr.face, name, weight)]
    /\ ev' = Obs("setExpression", "none", FALSE, {}, {}, "none", 0, "void", stopFence,
                 NoFrame, <<name, weight>>)
    /\ UNCHANGED <<mapperVars, meshVars, config, loopVars, audioVars, now, nticks,
                   starts, seq, stopFence, held>>

\* ExpressionController.blendExpressions(expressions), called on the controller
BlendExpressions(entries) ==
    /\ mgr' = [Did(mgr, "blendExpressions", << >>)
                  EXCEPT !.face = blendExpressions(mgr.face, entries)]
    /\ ev' = Obs("blendExpressions", "none", FALSE, {}, {}, "none", 0, "void",
                 stopFence, NoFrame, entries)
    /\ UNCHANGED <<mapperVars, meshVars, config, loopVars, audioVars, now, nticks,
                   starts, seq, stopFence, held>>

(* ------------------------------------------------------------------ *)
(* Specifications                                                     *)
(* ------------------------------------------------------------------ *)

LifeAvatars == {"vrcFull", "altOnly"}
ContextOutcomes == {"running", "suspended", "throw"}
ConfigUpdates ==
    { ("smoothing" :> <<1, 2>>),
      ("updateInterval" :> 0),
      ("smoothing" :> <<1, 4>>) @@ ("minVolume" :> <<25, 2>>) }

\* the engine's lifecycle on an avatar that is bound once: start/stop and
\* animation frames under the configuration given at construction
Next ==
    \/ \E a \in LifeAvatars : vrm = NoVRM /\ SetVRM(a) /\ UNCHANGED mgr
    \/ \E el \in AudioElements, c \in ContextOutcomes : StartCall(el, c) /\ UNCHANGED mgr
    \/ \E f \in LifeFrames : StartContinue(f) /\ UNCHANGED mgr
    \/ \E k \in 1..MaxStarts, ok \in BOOLEAN, f \in LifeFrames : StartResumed(k, ok, f) /\ UNCHANGED mgr
    \/ Stop /\ UNCHANGED mgr
    \/ \E h \in rafQueue, dt \in FrameDeltas, f \in LifeFrames : Tick(h, dt, f) /\ UNCHANGED mgr

Spec == Init /\ [][Next]_vars

SeqAvatars == {"vrcSplit", "exprOnly", "altOnly"}
TestInputs == {<<"aa", One>>, <<"oh", <<1, 2>>>>, <<"xx", One>>, <<"toString", One>>}

\* the diagnostic path: testVowel, runTestSequence and stop, on an avatar
\* that is bound once
NextSeq ==
    \/ \E a \in SeqAvatars : vrm = NoVRM /\ SetVRM(a) /\ UNCHANGED mgr
    \/ \E t \in TestInputs : TestVowel(t[1], t[2]) /\ UNCHANGED mgr
    \/ RunTestSequence /\ UNCHANGED mgr
    \/ SeqStep /\ UNCHANGED mgr
    \/ Stop /\ UNCHANGED mgr

SpecSeq == Init /\ [][NextSeq]_vars

\* every timer that runTestSequence waits for fires
SpecSeqFair == SpecSeq /\ WF_seq(SeqTimer)

MixedWeights ==
    [v \in Vowels |-> IF v = "aa" THEN <<3, 4>> ELSE IF v = "oh" THEN <<1, 4>> ELSE Zero]

\* an AudioAnalyzer after a successful initialize(el)
InitializedAnalyzer(smoothing, el) ==
    [audioContext |-> "running", analyser |-> TRUE, source |-> el,
     dataArray |-> TRUE, smoothingTimeConstant |-> smoothing]

SmoothSensitivities == {<<1, 2>>, One}
SmoothSmoothings == {Zero, <<1, 2>>, One}
SmoothMinVolumes == {<<10, 1>>, <<25, 2>>}
SmoothStartVectors == {ZeroWeights, OneHot("aa", One), MixedWeights}
SmoothFrames ==
    {Frame(vol, vw) : vol \in {<<1, 16>>, <<1, 8>>, <<1, 2>>, <<2, 1>>},
                      vw \in {OneHot("e", One), MixedWeights}}

\* a running engine, for every configuration and smoothed vector drawn
InitSmooth ==
    /\ vrm = "vrcFull"
    /\ morphTargetMap = buildMorphTargetMap("vrcFull")
    /\ influences = [s \in Sinks |-> Zero]
    /\ exprWeights = [k \in ExprKeys |-> Zero]
    /\ config \in [sensitivity : SmoothSensitivities, smoothing : SmoothSmoothings,
                   minVolume : SmoothMinVolumes, updateInterval : {DefaultConfig.updateInterval}]
    /\ isRunning = TRUE
    /\ animationFrame = 1
    /\ lastUpdateTime = 0
    /\ smoothedWeights \in SmoothStartVectors
    /\ analyzers = <<InitializedAnalyzer(config.smoothing, "el1")>>
    /\ audioAnalyzer = 1
    /\ mediaBound = {"el1"}
    /\ rafQueue = {1}
    /\ now = 0
    /\ nticks = 0
    /\ starts = << >>
    /\ seq = NoSeq
    /\ stopFence = FALSE
    /\ held = << >>
    /\ mgr = NewManager
    /\ ev = Obs("init", "none", FALSE, {}, {}, "none", 0, "void", FALSE, NoFrame, "none")

\* processed ticks only: every frame arrives one update interval after the last
NextSmooth ==
    \E h \in rafQueue, f \in SmoothFrames : Tick(h, DefaultConfig.updateInterval, f) /\ UNCHANGED mgr

SpecSmooth == InitSmooth /\ [][NextSmooth]_vars

StatusFrames ==
    {Frame(<<1, 16>>, OneHot("e", One)), Frame(<<1, 2>>, MixedWeights)}

\* a running engine under smoothing 1/2 whose status a caller reads, keeps and
\* writes to while ticks are processed and the engine is stopped
InitStatus ==
    /\ InitSmooth
    /\ config = [DefaultConfig EXCEPT !.smoothing = <<1, 2>>, !.sensitivity = One]

NextStatus ==
    \/ \E h \in rafQueue, f \in StatusFrames : Tick(h, DefaultConfig.updateInterval, f) /\ UNCHANGED mgr
    \/ Stop /\ UNCHANGED mgr
    \/ GetStatus /\ UNCHANGED mgr
    \/ \E k \in 1..MaxHeld : MutateStatus(k, "aa", <<7, 8>>) /\ UNCHANGED mgr

SpecStatus == InitStatus /\ [][NextStatus]_vars

DiagFrames == {Frame(<<1, 2>>, OneHot("aa", One))}

\* testVowel next to the production loop: one avatar, one audio element, the
\* engine idle, starting, running and stopped
NextDiag ==
    \/ vrm = NoVRM /\ SetVRM("vrcFull") /\ UNCHANGED mgr
    \/ StartCall("el1", "running") /\ UNCHANGED mgr
    \/ \E f \in DiagFrames : StartContinue(f) /\ UNCHANGED mgr
    \/ Stop /\ UNCHANGED mgr
    \/ \E h \in rafQueue, f \in DiagFrames : Tick(h, DefaultConfig.updateInterval, f) /\ UNCHANGED mgr
    \/ \E t \in TestInputs : TestVowel(t[1], t[2]) /\ UNCHANGED mgr

SpecDiag == Init /\ [][NextDiag]_vars

\* updateConfig next to the production loop: one avatar, one audio element
NextConfig ==
    \/ vrm = NoVRM /\ SetVRM("vrcFull") /\ UNCHANGED mgr
    \/ StartCall("el1", "running") /\ UNCHANGED mgr
    \/ \E f \in DiagFrames : StartContinue(f) /\ UNCHANGED mgr
    \/ Stop /\ UNCHANGED mgr
    \/ \E h \in rafQueue, f \in DiagFrames : Tick(h, DefaultConfig.updateInterval, f) /\ UNCHANGED mgr
    \/ \E p \in ConfigUpdates : UpdateConfig(p) /\ UNCHANGED mgr

SpecConfig == Init /\ [][NextConfig]_vars

\* MorphMapper.applyVowelWeights(vowelWeights), called on the mapper
ApplyVowelWeights(vw) ==
    \E e \in {applyVowelWeights(vrm, morphTargetMap, influences, exprWeights, vw)} :
        /\ influences' = e.infl
        /\ exprWeights' = e.expr
        /\ ev' = Obs("apply", "none", FALSE, e.wrote, e.exprSet, e.strat, e.updates,
                     "void", stopFence, NoFrame, vw)
        /\ UNCHANGED <<mapperVars, config, loopVars, audioVars, now, nticks, starts, seq,
                       stopFence, held>>

\* MorphMapper.reset(), called on the mapper
Reset ==
    \E r \in {reset(vrm, morphTargetMap, influences, exprWeights)} :
        /\ influences' = r.infl
        /\ exprWeights' = r.expr
        /\ ev' = Obs("reset", "none", FALSE, r.wrote, r.exprSet, r.strat, r.updates,
                     "void", stopFence, NoFrame, "none")
        /\ UNCHANGED <<mapperVars, config, loopVars, audioVars, now, nticks, starts, seq,
                       stopFence, held>>

ApplyInputs == {OneHot("aa", One), MixedWeights, ZeroWeights}

\* MorphMapper.setMorphTarget(morphName, value), called on the mapper
SetMorphTarget(morphName, value) ==
    \E r \in {setMorphTarget(vrm, morphTargetMap, influences, morphName, value)} :
        /\ influences' = r.infl
        /\ ev' = Obs("setMorphTarget", "none", FALSE, r.wrote, {}, "none", r.updates,
                     r.ret, stopFence, NoFrame, <<morphName, value>>)
        /\ UNCHANGED <<mapperVars, exprWeights, config, loopVars, audioVars, now, nticks,
                       starts, seq, stopFence, held>>

SetNames == {"vrc.v_aa", "Blink", "jaw"}
SetValues == {<<-1, 2>>, <<1, 4>>, <<3, 2>>}

\* the resolver alone, on every avatar of the model, rebinding included
NextMap ==
    \/ \E a \in AvatarIds : SetVRM(a) /\ UNCHANGED mgr
    \/ \E vw \in ApplyInputs : ApplyVowelWeights(vw) /\ UNCHANGED mgr
    \/ Reset /\ UNCHANGED mgr

SpecMap == Init /\ [][NextMap]_vars

SetAvatars == {"vrcSplit", "exprOnly", "altOnly"}

\* the resolver with manual overrides, on an avatar that is bound once
NextSet ==
    \/ \E a \in SetAvatars : vrm = NoVRM /\ SetVRM(a) /\ UNCHANGED mgr
    \/ \E vw \in ApplyInputs : ApplyVowelWeights(vw) /\ UNCHANGED mgr
    \/ Reset /\ UNCHANGED mgr
    \/ \E n \in SetNames, x \in SetValues : SetMorphTarget(n, x) /\ UNCHANGED mgr

SpecSet == Init /\ [][NextSet]_vars

\* AudioAnalyzer.initialize(audioElement), called on the analyzer, up to its
\* first suspension; nodes tells whether a context that is closed still
\* creates nodes or throws InvalidStateError
Initialize(el, created, nodes) ==
    /\ Len(starts) < MaxStarts
    /\ \E r \in {IF curAnalyzer.audioContext = "closed" /\ ~nodes
                  THEN [an |-> curAnalyzer, bound |-> mediaBound, status |-> "throw"]
                  ELSE initialize(curAnalyzer, el, mediaBound, created)} :
           /\ analyzers' = [analyzers EXCEPT ![audioAnalyzer] = r.an]
           /\ mediaBound' = r.bound
           /\ starts' = IF r.status = "await"
                        THEN Append(starts, [pc |-> "resume", el |-> el,
                                             an |-> audioAnalyzer, ok |-> FALSE,
                                             restart |-> FALSE, solo |-> starts = << >>])
                        ELSE starts
           /\ ev' = Obs("initialize", "none", FALSE, {}, {}, "none", 0,
                        IF r.status = "await" THEN "pending" ELSE r.status,
                        stopFence, NoFrame, el)
    /\ UNCHANGED <<mapperVars, meshVars, config, loopVars, audioAnalyzer, now, nticks,
                   seq, stopFence, held>>

\* audioContext.resume() settles and initialize() runs to its end
InitializeResumed(k, resolved, nodes) ==
    /\ k \in 1..Len(starts)
    /\ starts[k].pc = "resume"
    /\ LET s == starts[k]
           an0 == analyzers[s.an]
           an1 == IF resolved /\ an0.audioContext = "suspended"
                  THEN [an0 EXCEPT !.audioContext = "running"] ELSE an0
       IN  \E r \in {IF resolved /\ (an0.audioContext # "closed" \/ nodes)
                      THEN initializeRest(an1, s.el, mediaBound)
                      ELSE [an |-> an0, bound |-> mediaBound, status |-> "throw"]} :
               /\ analyzers' = [analyzers EXCEPT ![s.an] = r.an]
               /\ mediaBound' = r.bound
               /\ starts' = RemoveAt(starts, k)
               /\ ev' = Obs("initializeResumed", "none", FALSE, {}, {}, "none", 0,
                            r.status, stopFence, NoFrame, s.el)
    /\ UNCHANGED <<mapperVars, meshVars, config, loopVars, audioAnalyzer, now, nticks,
                   seq, stopFence, held>>

\* AudioAnalyzer.analyze(), called on the analyzer: null, or the analysis of
\* the bins that the analyser node delivers
Analyze(data) ==
    /\ ev' = IF analyzeReady(curAnalyzer)
             THEN Obs("analyze", "none", TRUE, {}, {}, "none", 0, "frame", stopFence,
                      NoFrame, analyze(data))
             ELSE Obs("analyze", "none", FALSE, {}, {}, "none", 0, "null", stopFence,
                      NoFrame, "none")
    /\ UNCHANGED <<mapperVars, meshVars, config, loopVars, audioVars, now, nticks,
                   starts, seq, stopFence, held>>

\* AudioAnalyzer.dispose(), called on the analyzer
Dispose ==
    /\ analyzers' = [analyzers EXCEPT ![audioAnalyzer] = dispose(curAnalyzer)]
    /\ ev' = Obs("dispose", "none", FALSE, {}, {}, "none", 0, "void", stopFence,
                 NoFrame, "none")
    /\ UNCHANGED <<mapperVars, meshVars, config, loopVars, audioAnalyzer, mediaBound,
                   now, nticks, starts, seq, stopFence, held>>

\* the caller closes the context it obtained from getAudioContext()
CloseContext ==
    /\ curAnalyzer.audioContext \notin {"null", "closed"}
    /\ analyzers' = [analyzers EXCEPT ![audioAnalyzer].audioContext = "closed"]
    /\ ev' = Obs("closeContext", "none", FALSE, {}, {}, "none", 0, "void", stopFence,
                 NoFrame, "none")
    /\ UNCHANGED <<mapperVars, meshVars, config, loopVars, audioAnalyzer, mediaBound,
                   now, nticks, starts, seq, stopFence, held>>

\* bins per array (frequencyBinCount) and the values a bin takes, in dB
BinCount == 3
BinValues == {NegInfinity, -90, -60, -10, -5}

\* one AudioAnalyzer used directly through its public methods
NextAnalyzer ==
    \/ \E el \in AudioElements, c \in ContextOutcomes, n \in BOOLEAN : Initialize(el, c, n) /\ UNCHANGED mgr
    \/ \E k \in 1..MaxStarts, ok \in BOOLEAN, n \in BOOLEAN : InitializeResumed(k, ok, n) /\ UNCHANGED mgr
    \/ \E data \in [1..BinCount -> BinValues] : Analyze(data) /\ UNCHANGED mgr
    \/ Dispose /\ UNCHANGED mgr
    \/ CloseContext /\ UNCHANGED mgr

SpecAnalyzer == Init /\ [][NextAnalyzer]_vars

\* AudioAnalyzer.calculateVowelWeights(dominantFreq, frequencies)
CalculateVowelWeights(dominantFreq) ==
    /\ ev' = Obs("calculateVowelWeights", "none", FALSE, {}, {}, "none", 0, "weights",
                 stopFence, NoFrame,
                 [dominantFreq |-> dominantFreq,
                  vowelWeights |-> calculateVowelWeights(dominantFreq)])
    /\ UNCHANGED <<mapperVars, meshVars, config, loopVars, audioVars, now, nticks,
                   starts, seq, stopFence, held>>

\* dominant frequencies, in Hz: a grid up to the Nyquist frequency and the
\* formant frequencies themselves
DominantFrequencies ==
    {100 * k : k \in 0..((sampleRate \div 2) \div 100)}
        \cup UNION {{vowelFormants[v].f1, vowelFormants[v].f2} : v \in Vowels}

\* the vowel weighting alone, for every dominant frequency drawn
NextVowel ==
    \E f \in DominantFrequencies : CalculateVowelWeights(f) /\ UNCHANGED mgr

SpecVowel == Init /\ [][NextVowel]_vars

RebindAvatars == {"vrcSplit", "altOnly", "exprOnly"}
RebindNames == {"vrc.v_aa", "mouth_open"}
RebindValues == {<<1, 4>>}

\* the resolver handed one avatar after the other, with applies, resets and
\* manual overrides in between
NextRebind ==
    \/ \E a \in RebindAvatars : SetVRM(a) /\ UNCHANGED mgr
    \/ ApplyVowelWeights(OneHot("aa", One)) /\ UNCHANGED mgr
    \/ Reset /\ UNCHANGED mgr
    \/ \E n \in RebindNames, x \in RebindValues : SetMorphTarget(n, x) /\ UNCHANGED mgr

SpecRebind == Init /\ [][NextRebind]_vars

ManagerAvatars == {"vrcFull", "altOnly"}
ManagerFrames == {Frame(<<1, 2>>, OneHot("aa", One))}

\* the engine driven through its VRMManager: avatars are loaded and
\* unloaded, lip sync is started and stopped, the render loop and the
\* engine's own loop deliver frames
NextManager ==
    \/ \E a \in ManagerAvatars : LoadVRM(a)
    \/ \E k \in 1..MaxLoads, ok \in BOOLEAN : LoadSettled(k, ok)
    \/ LipSyncStart("el1", "running")
    \/ \E f \in ManagerFrames : LipSyncStartContinue(f)
    \/ LipSyncStop
    \/ LipSyncTestVowel("aa", One)
    \/ \E h \in rafQueue, f \in ManagerFrames :
           Tick(h, DefaultConfig.updateInterval, f) /\ EngineOnly
    \/ ~MicroPending /\ OnFrame
    \/ ManagerDispose

SpecManager == Init /\ [][NextManager]_vars

\* calls of start() that may overlap: a second call is made while the first
\* is still awaiting the analyzer's initialization
MaxOverlap == 2
OverlapFrames == {Frame(<<1, 16>>, OneHot("aa", One))}

NextOverlap ==
    \/ vrm = NoVRM /\ SetVRM("vrcFull") /\ UNCHANGED mgr
    \/ \E el \in AudioElements, c \in {"running", "suspended"} :
          StartUpTo(el, c, MaxOverlap) /\ UNCHANGED mgr
    \/ \E f \in OverlapFrames : StartContinue(f) /\ UNCHANGED mgr
    \/ \E k \in 1..MaxOverlap, ok \in BOOLEAN, f \in OverlapFrames :
          StartResumed(k, ok, f) /\ UNCHANGED mgr
    \/ Stop /\ UNCHANGED mgr
    \/ \E h \in rafQueue, f \in OverlapFrames : Tick(h, 16, f) /\ UNCHANGED mgr

SpecOverlap == Init /\ [][NextOverlap]_vars

\* the paths that write without the smoother: testVowel with weights inside
\* and outside [0, 1], setMorphTarget and reset, on an avatar bound once
RangeAvatars == {"vrcFull", "altOnly"}
RangeWeights == {<<1, 2>>, <<-1, 1>>, <<2, 1>>, <<3, 1>>}

NextRange ==
    \/ \E a \in RangeAvatars : vrm = NoVRM /\ SetVRM(a) /\ UNCHANGED mgr
    \/ \E v \in {"aa", "oh"}, w \in RangeWeights : TestVowel(v, w) /\ UNCHANGED mgr
    \/ \E n \in SetNames, x \in SetValues : SetMorphTarget(n, x) /\ UNCHANGED mgr
    \/ Reset /\ UNCHANGED mgr

SpecRange == Init /\ [][NextRange]_vars

\* loads through the manager that may overlap: a second loadVRM is called
\* while the first is in flight (the constructor's auto-load and the load of
\* VRMViewer's effect on mount), and the manager may be disposed meanwhile
MaxInFlight == 2
LoadUrls == {"vrcFull", "altOnly"}

NextLoads ==
    \/ \E a \in LoadUrls : LoadUpTo(a, MaxInFlight)
    \/ \E k \in 1..MaxInFlight, ok \in BOOLEAN : LoadSettled(k, ok)
    \/ ManagerDispose

SpecLoads == Init /\ [][NextLoads]_vars

\* an ExpressionController on one avatar: expressions are set one by one and
\* blended from objects of up to MaxBlend entries with distinct names
MaxBlend == 2
BlendNames == {"happy", "sad", "blink", "smile", "aa"}
BlendWeights == {One, <<1, 2>>, <<3, 2>>}
BlendEntries ==
    UNION {{e \in [1..n -> BlendNames \X BlendWeights] :
               \A i, j \in 1..n : e[i][1] = e[j][1] => i = j} : n \in 0..MaxBlend}

NextBlend ==
    \/ \E n \in BlendNames, w \in BlendWeights : SetExpression(n, w)
    \/ \E e \in BlendEntries : BlendExpressions(e)

SpecBlend == Init /\ [][NextBlend]_vars

\* the animation facade of a manager: an avatar is loaded, animations are
\* loaded, played, paused and stopped; "missing" is never loaded
LoadedAnimations == {"idle", "wave", "walk"}
PlayedAnimations == LoadedAnimations \cup {"missing"}

NextAnimation ==
    \/ LoadVRM("vrcFull")
    \/ \E k \in 1..MaxLoads, ok \in BOOLEAN : LoadSettled(k, ok)
    \/ \E n \in LoadedAnimations : AnimationLoaded(n)
    \/ \E n \in PlayedAnimations : AnimationPlay(n)
    \/ AnimationStop
    \/ AnimationPause

SpecAnimation == Init /\ [][NextAnimation]_vars

\* the event registry of a VRMManager: listeners are added and removed,
\* between emits and by the listeners during an emit
NextEvents ==
    \/ \E e \in EventTypes, l \in ListenerIds : On(e, l)
    \/ \E e \in EventTypes, l \in ListenerIds : Off(e, l)
    \/ \E e \in EventTypes, script \in [ListenerIds -> ListenerActs] : Emit(e, script)

SpecEvents == Init /\ [][NextEvents]_vars

(* ------------------------------------------------------------------ *)
(* Properties                                                         *)
(* ------------------------------------------------------------------ *)

SeqOps == {"seqTestVowel", "seqReset"}
LoopOps == {"tick", "startContinue", "startResumed"}

\* the sinks of the VRC vowel channels of avatar a
VrcSinks(a) ==
    IF a = NoVRM THEN {}
    ELSE UNION {SinksNamed(a, vrcVowelMorphs[k]) : k \in 1..Len(vrcVowelMorphs)}

\* C1: once stop() has returned while a runTestSequence() is in flight, no
\* later step of the sequence writes through the resolver, and the vowel
\* channels stay at zero.
C1_StopCancelsTestSequence ==
    (ev.op \in SeqOps /\ ev.fence) =>
        (/\ ev.wrote = {} /\ ev.exprSet = {} /\ ev.updates = 0
         /\ \A s \in VrcSinks(vrm) : influences[s] = Zero)

\* C2: after stop() has returned and until start() is invoked again, no run of
\* animate() calls analyze(), changes the smoothed weights or writes through
\* the resolver.
C2_NoTickWorkAfterStop ==
    (ev.op \in LoopOps /\ ev.fence) =>
        (~ev.analyzed /\ ev.branch \notin {"noframe", "silence", "blend"}
         /\ ev.wrote = {} /\ ev.exprSet = {})

\* C3: start() with no avatar bound returns false and changes nothing: the
\* engine stays idle, no analyzer is initialized, no tick is scheduled and no
\* start is left pending.
C3_StartWithoutAvatar ==
    [][(ev'.op = "start" /\ vrm = NoVRM) =>
          (/\ ev'.ret = "false"
           /\ ~isRunning'
           /\ UNCHANGED <<isRunning, animationFrame, rafQueue, lastUpdateTime,
                          smoothedWeights, analyzers, audioAnalyzer, mediaBound,
                          starts, influences, exprWeights, vrm, morphTargetMap>>)]_vars

C3_Witness ==
    ev.op = "start" /\ ev.ret = "false" /\ vrm = NoVRM /\ ~isRunning
    /\ rafQueue = {} /\ ~isInitialized(curAnalyzer)

\* C4: a start() that was called while the engine was running and whose
\* analyzer initialization succeeded ends with the engine running on an
\* initialized analyzer.
C4_RestartEndsRunningInitialized ==
    (ev.op \in {"startContinue", "startResumed"} /\ ev.ret = "true" /\ ev.arg = TRUE) =>
        (isRunning /\ isInitialized(curAnalyzer) /\ analyzeReady(curAnalyzer))

StopEndState ==
    /\ ~isRunning /\ animationFrame = 0 /\ smoothedWeights = ZeroWeights
    /\ curAnalyzer = NewAnalyzer(curAnalyzer.smoothingTimeConstant)
    /\ \A s \in VrcSinks(vrm) : influences[s] = Zero
    /\ \A k \in 1..Len(resetExpressions) :
          <<vrm, resetExpressions[k]>> \in DOMAIN exprWeights
              => exprWeights[<<vrm, resetExpressions[k]>>] = Zero

C6_ThrottledTickOnlyReschedules ==
    [][(ev'.op = "tick" /\ isRunning /\ now' - lastUpdateTime < config.updateInterval) =>
          (/\ ~ev'.analyzed
           /\ ev'.wrote = {} /\ ev'.exprSet = {} /\ ev'.updates = 0
           /\ UNCHANGED <<lastUpdateTime, smoothedWeights, influences, exprWeights>>
           /\ Cardinality(rafQueue') = Cardinality(rafQueue)
           /\ animationFrame' \in rafQueue')]_vars

\* a throttled tick that followed a processed one
C6_Witness ==
    ev.op = "tick" /\ ev.branch = "throttled" /\ lastUpdateTime > 0
    /\ smoothedWeights # ZeroWeights

\* C7: a processed tick that obtained a frame takes the silence-decay branch
\* exactly when volume * 100 < minVolume, whatever the frame's vowel weights,
\* and the blend branch otherwise.
C7_SilenceBranchIffBelowMinVolume ==
    (ev.op = "tick" /\ ev.analyzed) =>
        /\ ev.branch \in {"silence", "blend"}
        /\ ev.branch = "silence" <=>
               RLt(RMul(ev.frame.volume, RInt(100)), config.minVolume)

\* a frame exactly at the threshold was blended
C7_Witness ==
    /\ ev.op = "tick" /\ ev.branch = "blend"
    /\ RMul(ev.frame.volume, RInt(100)) = config.minVolume

BlendTarget(frame, v) ==
    RMul(frame.vowelWeights[v], RMin(One, RMul(frame.volume, config.sensitivity)))

Between(x, lo, hi) == RLe(RMin(lo, hi), x) /\ RLe(x, RMax(lo, hi))
Dist(x, y) == RAbs(RSub(x, y))

\* C9 as stated: on a blend tick every smoothed weight stays between its old
\* value and the target and, unless it is at the target, gets strictly
\* closer to it, for every smoothing in [0,1].
C9_BlendConverges ==
    [][(ev'.op = "tick" /\ ev'.branch = "blend") =>
          \A v \in Vowels :
              LET t == BlendTarget(ev'.frame, v)
              IN  /\ Between(smoothedWeights'[v], smoothedWeights[v], t)
                  /\ smoothedWeights[v] # t
                        => RLt(Dist(smoothedWeights'[v], t), Dist(smoothedWeights[v], t))]_vars

\* C9 (amended): on a blend tick every smoothed weight stays between its old
\* value and the target, and its distance to the target is multiplied by
\* smoothing: it gets strictly closer for smoothing < 1 and does not move for
\* smoothing = 1.
C9_BlendContracts ==
    [][(ev'.op = "tick" /\ ev'.branch = "blend") =>
          \A v \in Vowels :
              LET t == BlendTarget(ev'.frame, v)
              IN  /\ Between(smoothedWeights'[v], smoothedWeights[v], t)
                  /\ Dist(smoothedWeights'[v], t)
                        = RMul(config.smoothing, Dist(smoothedWeights[v], t))
                  /\ (RLt(config.smoothing, One) /\ smoothedWeights[v] # t)
                        => RLt(Dist(smoothedWeights'[v], t), Dist(smoothedWeights[v], t))
                  /\ config.smoothing = One
                        => smoothedWeights'[v] = smoothedWeights[v]]_vars

\* a blend under a volume that the sensitivity scaling clamps to 1 moved a
\* weight half of the way to its target
C9_Witness ==
    /\ ev.op = "tick" /\ ev.branch = "blend" /\ config.smoothing = <<1, 2>>
    /\ RLt(One, RMul(ev.frame.volume, config.sensitivity))
    /\ \E v \in Vowels :
          /\ smoothedWeights[v] # BlendTarget(ev.frame, v)
          /\ smoothedWeights[v] # Zero

\* C10: in one applyVowelWeights call in which the direct strategy wrote a
\* VRC vowel sink, no expression value is set and no sink other than the VRC
\* vowel sinks is modified.
C10_DirectStrategyShortCircuits ==
    [][(ev'.op = "apply" /\ ev'.wrote \cap VrcSinks(vrm) # {}) =>
          (/\ ev'.exprSet = {}
           /\ exprWeights' = exprWeights
           /\ ev'.wrote \subseteq VrcSinks(vrm)
           /\ \A s \in Sinks \ VrcSinks(vrm) : influences'[s] = influences[s])]_vars

\* the direct strategy wrote on an avatar that also has an expression
\* manager and a channel the fallback keywords match
C10_Witness ==
    /\ ev.op = "apply" /\ ev.strat = "vrc" /\ ev.wrote # {}
    /\ HasExpressionManager(vrm)
    /\ \E n \in DOMAIN morphTargetMap :
          MatchesPattern(n) /\ SinksNamed(vrm, n) \cap VrcSinks(vrm) = {}
    /\ \E s \in VrcSinks(vrm) : influences[s] # Zero

\* the discovered sinks of the channel called name: the entries of the
\* resolver's table
Discovered(name) ==
    IF name \in DOMAIN morphTargetMap
    THEN {morphTargetMap[name][k] : k \in 1..Len(morphTargetMap[name])}
    ELSE {}

\* C11: after applyVowelWeights(v) on an avatar with VRC vowel channels, every
\* discovered sink of vrc.v_X, on every mesh that exposes it, holds v[X], for
\* each vowel X whose channel exists.
C11_VrcSinksReadInput ==
    (ev.op = "apply" /\ \E k \in 1..Len(vrcVowelMorphs) : Discovered(vrcVowelMorphs[k]) # {}) =>
        \A i \in 1..Len(VowelOrder) :
            /\ Discovered(vrcVowelMorphs[i]) = SinksNamed(vrm, vrcVowelMorphs[i])
            /\ \A s \in Discovered(vrcVowelMorphs[i]) : influences[s] = ev.arg[VowelOrder[i]]

\* a mixed vector was applied to an avatar that exposes vrc.v_aa on two meshes
C11_Witness ==
    /\ ev.op = "apply" /\ ev.arg = MixedWeights
    /\ Cardinality(Discovered("vrc.v_aa")) = 2
    /\ \A s \in Discovered("vrc.v_aa") : influences[s] = <<3, 4>>
    /\ \A s \in Discovered("vrc.v_oh") : influences[s] = <<1, 4>>
    /\ Discovered("vrc.v_oh") # {}

\* the largest weight of a vowel vector
MaxWeight(vw) ==
    CHOOSE x \in {vw[v] : v \in Vowels} : \A v \in Vowels : RLe(vw[v], x)

\* the avatar is served by the heuristic fallback: no discovered VRC vowel
\* channel and no expression manager
FallbackAvatar(a) ==
    /\ a # NoVRM
    /\ ~HasExpressionManager(a)
    /\ \A k \in 1..Len(vrcVowelMorphs) : SinksNamed(a, vrcVowelMorphs[k]) = {}

\* the channel names whose lower-cased form contains a keyword pattern, and
\* their sinks on avatar a
KeywordNames == {x \in MorphNames : MatchesSomePattern(x)}

KeywordSinks(a) == UNION {SinksNamed(a, n) : n \in KeywordNames}

\* C12: on an avatar without VRC vowel channel and without expression manager,
\* applyVowelWeights(v) leaves max(v) * 0.5 in every sink of every channel whose
\* lower-cased name contains a keyword pattern and leaves every other sink as
\* it was.
C12_FallbackWritesHalfMax ==
    [][(ev'.op = "apply" /\ FallbackAvatar(vrm)) =>
          \A s \in Sinks :
              IF s \in KeywordSinks(vrm)
              THEN influences'[s] = RMul(MaxWeight(ev'.arg), <<1, 2>>)
              ELSE influences'[s] = influences[s]]_vars

\* the fallback wrote 3/8 to the sinks of mouth_open and JawDrop
C12_Witness ==
    /\ ev.op = "apply" /\ ev.arg = MixedWeights /\ FallbackAvatar(vrm)
    /\ ev.strat = "alt"
    /\ Cardinality(KeywordSinks(vrm)) = 2
    /\ \A s \in KeywordSinks(vrm) : influences[s] = <<3, 8>>
    /\ SinksOf(vrm) \ KeywordSinks(vrm) # {}

\* the expression names the vowels are mapped to
MappedExpressions == {"aa", "e", "i", "o", "u"}

\* the vowel whose weight goes to expression name n
VowelOfExpression(n) ==
    CASE n = "aa" -> "aa" [] n = "e" -> "e" [] n = "i" -> "ih"
      [] n = "o" -> "oh" [] n = "u" -> "ou"

\* C13: when the avatar has no discovered VRC vowel channel but has an
\* expression manager, applyVowelWeights(v) calls setValue for aa, e, i, o, u
\* with the weights of aa, e, ih, oh, ou, and writes no mesh channel sink, also
\* when the manager knows none of these names.
C13_ExpressionStrategyShortCircuits ==
    [][(/\ ev'.op = "apply" /\ vrm # NoVRM /\ HasExpressionManager(vrm)
        /\ \A k \in 1..Len(vrcVowelMorphs) : Discovered(vrcVowelMorphs[k]) = {}) =>
          (/\ ev'.exprSet = MappedExpressions
           /\ ev'.wrote = {}
           /\ influences' = influences
           /\ \A key \in DOMAIN exprWeights :
                 IF key[1] = vrm /\ key[2] \in MappedExpressions
                 THEN exprWeights'[key] = ev'.arg[VowelOfExpression(key[2])]
                 ELSE exprWeights'[key] = exprWeights[key])]_vars

\* the expression strategy ran on an avatar whose manager knows none of the
\* five names and whose mesh has a channel the fallback keywords match
C13_Witness ==
    /\ ev.op = "apply" /\ ev.arg = MixedWeights /\ ev.strat = "expr"
    /\ HasExpressionManager(vrm)
    /\ \A n \in MappedExpressions : <<vrm, n>> \notin DOMAIN exprWeights
    /\ KeywordSinks(vrm) # {}
    /\ \A s \in KeywordSinks(vrm) : influences[s] = Zero

\* the operations that run MorphMapper.reset(): a direct call, the reset
\* between two vowels of runTestSequence, and stop()
ResetOps == {"reset", "seqReset", "stop"}

C15_SetMorphTargetClamps ==
    [][ev'.op = "setMorphTarget" =>
          LET name == ev'.arg[1]
              value == ev'.arg[2]
              clamped == IF RLt(value, Zero) THEN Zero
                         ELSE IF RLt(One, value) THEN One ELSE value
          IN  /\ ev'.ret = "true" <=> Discovered(name) # {}
              /\ exprWeights' = exprWeights
              /\ \A s \in Sinks :
                    IF s \in Discovered(name)
                    THEN influences'[s] = clamped
                    ELSE influences'[s] = influences[s]]_vars

\* a value above 1 was written to a channel with two sinks while another
\* channel of the avatar held a value
C15_Witness ==
    /\ ev.op = "setMorphTarget" /\ ev.ret = "true" /\ RLt(One, ev.arg[2])
    /\ Cardinality(Discovered(ev.arg[1])) = 2
    /\ \A s \in Discovered(ev.arg[1]) : influences[s] = One
    /\ \E s \in SinksOf(vrm) \ Discovered(ev.arg[1]) : influences[s] = <<1, 4>>

\* C16: getStatus() returns the smoothed vector of the moment of the call in
\* an object of its own: a write of the caller to it leaves the engine's
\* smoothed weights alone, and no tick and no stop() changes what a status
\* object returned earlier holds.
C16_StatusIsSnapshot ==
    /\ [][ev'.op = "getStatus" =>
             /\ Contents(held'[Len(held')].status, smoothedWeights') = smoothedWeights
             /\ held'[Len(held')].status.isActive = isRunning
             /\ smoothedWeights' = smoothedWeights]_vars
    /\ [][ev'.op = "mutateStatus" => smoothedWeights' = smoothedWeights]_vars
    /\ [][ev'.op \in {"tick", "stop"} =>
             /\ Len(held') = Len(held)
             /\ \A k \in 1..Len(held) :
                   Contents(held'[k].status, smoothedWeights')
                       = Contents(held[k].status, smoothedWeights)]_vars
    /\ [](\A k \in 1..Len(held) :
             ~held[k].touched => Contents(held[k].status, smoothedWeights) = held[k].at)

\* a status taken while the smoothed vector was non-zero is still intact after
\* stop() zeroed the engine's vector
C16_Witness ==
    /\ ev.op = "stop" /\ smoothedWeights = ZeroWeights
    /\ \E k \in 1..Len(held) :
          /\ ~held[k].touched
          /\ held[k].at # ZeroWeights
          /\ Contents(held[k].status, smoothedWeights) = held[k].at
          /\ held[k].status.currentVowel # "sil"

\* C17: testVowel(name, weight) with an avatar bound hands the resolver the
\* vector that is weight at name and 0 elsewhere, whether the engine is idle or
\* running, and leaves the smoothed weights, isRunning and lastUpdateTime as
\* they were; with no avatar bound it changes nothing.
C17_TestVowelBypassesSmoothing ==
    [][ev'.op = "testVowel" =>
          LET vec == [v \in Vowels |-> IF v = ev'.arg[1] THEN ev'.arg[2] ELSE Zero]
              e == applyVowelWeights(vrm, morphTargetMap, influences, exprWeights, vec)
          IN  /\ UNCHANGED <<smoothedWeights, isRunning, lastUpdateTime, animationFrame,
                             rafQueue, analyzers, audioAnalyzer, vrm, morphTargetMap,
                             config, starts>>
              /\ IF vrm = NoVRM
                 THEN /\ UNCHANGED <<influences, exprWeights>>
                      /\ ev'.wrote = {} /\ ev'.exprSet = {} /\ ev'.updates = 0
                 ELSE /\ influences' = e.infl
                      /\ exprWeights' = e.expr
                      /\ \A i \in 1..Len(VowelOrder) :
                            \A s \in Discovered(vrcVowelMorphs[i]) :
                                influences'[s] = vec[VowelOrder[i]]]_vars

\* testVowel("oh", 1/2) on a running engine whose smoothed weight of aa is
\* positive: the sinks show the test vector, not the smoothed one
C17_Witness ==
    /\ ev.op = "testVowel" /\ ev.arg = <<"oh", <<1, 2>>>>
    /\ isRunning /\ RLt(Zero, smoothedWeights["aa"])
    /\ \A s \in Discovered("vrc.v_oh") : influences[s] = <<1, 2>>
    /\ \A s \in Discovered("vrc.v_aa") : influences[s] = Zero
    /\ Discovered("vrc.v_aa") # {}

\* the weights 0, 0.1, ..., 1, ..., 0.1, 0 in tenths
RampTenths == <<0, 1, 2, 3, 4, 5, 6, 7, 8, 9, 10, 9, 8, 7, 6, 5, 4, 3, 2, 1, 0>>

\* C18: a runTestSequence() ends, and only after it went through aa, e, ih,
\* oh, ou in this order; before the reset that closes a vowel it made exactly
\* the 21 testVowel calls of that vowel with the weights 0, 0.1, ..., 1, ...,
\* 0.1, 0 in this order.
C18_TestSequenceSweep ==
    /\ [][ev'.op = "seqReset" =>
             /\ seq.log = [k \in 1..Len(RampTenths) |->
                              <<VowelOrder[seq.vi], Rat(RampTenths[k], 10)>>]
             /\ seq'.visited = Append(seq.visited, VowelOrder[seq.vi])]_vars
    /\ [][(seq.active /\ ~seq'.active) =>
             (ev'.op = "seqDone" /\ seq.visited = VowelOrder /\ seq.log = << >>)]_vars
    /\ [](Len(seq.log) <= Len(RampTenths))
    /\ (seq.active ~> ~seq.active)

\* the reset after the last vowel, on a bound avatar
C18_Witness ==
    /\ ev.op = "seqReset" /\ seq.active /\ seq.visited = VowelOrder
    /\ vrm # NoVRM /\ ev.updates = 1

\* C19: updateConfig(partial) changes the provided configuration fields and no
\* other; with smoothing provided the engine holds a new analyzer instance that
\* is configured with the new value, and no instance that existed before the
\* call is changed; without smoothing the analyzer stays. The analyzer the
\* engine holds is always configured with the smoothing of the configuration,
\* so every frame a tick obtains comes from an analyzer with the current value.
C19_UpdateConfigReplacesAnalyzer ==
    /\ [][ev'.op = "updateConfig" =>
             /\ \A f \in DOMAIN config :
                   config'[f] = IF f \in DOMAIN ev'.arg THEN ev'.arg[f] ELSE config[f]
             /\ DOMAIN config' = DOMAIN config
             /\ \A k \in 1..Len(analyzers) : analyzers'[k] = analyzers[k]
             /\ IF "smoothing" \in DOMAIN ev'.arg
                THEN /\ audioAnalyzer' \notin 1..Len(analyzers)
                     /\ audioAnalyzer' \in 1..Len(analyzers')
                     /\ analyzers'[audioAnalyzer'].smoothingTimeConstant = ev'.arg["smoothing"]
                ELSE /\ audioAnalyzer' = audioAnalyzer
                     /\ analyzers' = analyzers]_vars
    /\ [](curAnalyzer.smoothingTimeConstant = config.smoothing)

\* updateConfig with smoothing and minVolume on a running engine: the
\* initialized analyzer of before keeps its smoothing value
C19_Witness ==
    /\ ev.op = "updateConfig" /\ DOMAIN ev.arg = {"smoothing", "minVolume"}
    /\ isRunning /\ audioAnalyzer = 2
    /\ isInitialized(analyzers[1])
    /\ analyzers[1].smoothingTimeConstant = DefaultConfig.smoothing
    /\ curAnalyzer.smoothingTimeConstant = <<1, 4>>
    /\ config.minVolume = <<25, 2>> /\ config.sensitivity = DefaultConfig.sensitivity

\* a start() on an element that has no source node yet succeeds from analyzer
\* state an whenever the audio context can be created and resumed
RetryCanSucceed(an, bound) ==
    \A el \in AudioElements \ bound :
        LET r == initialize(an, el, bound, "running")
        IN  \/ r.status = "ok"
            \/ /\ r.status = "await"
               /\ initializeRest([r.an EXCEPT !.audioContext = "running"], el, r.bound).status
                     = "ok"

\* C20: when the analyzer initialization of a start() fails (the audio context
\* cannot be created or resumed, or the source cannot be bound), the call
\* resolves to false and schedules nothing: it leaves isRunning, the pending
\* ticks and the smoothed weights as they were, and if no other start() call
\* overlapped with it the engine is idle with no tick handle stored; a later
\* start() on an element without source node succeeds if the audio context can
\* be created and resumed.
C20_FailedStartIsRecoverable ==
    [][(ev'.op \in {"startContinue", "startResumed"} /\ ev'.branch = "failed") =>
          (/\ ev'.ret = "false"
           /\ UNCHANGED <<isRunning, animationFrame, rafQueue, lastUpdateTime,
                          smoothedWeights, influences, exprWeights>>
           /\ Len(starts') = Len(starts) - 1
           /\ (Len(starts) = 1 /\ starts[1].solo) =>
                 (~isRunning' /\ animationFrame' = 0 /\ ~ev'.analyzed)
           /\ RetryCanSucceed(analyzers'[audioAnalyzer'], mediaBound'))]_vars

\* a start() failed at binding the source of an element that an earlier
\* start() had bound; the engine is idle and another element is still free
C20_Witness ==
    /\ ev.op = "startContinue" /\ ev.branch = "failed" /\ ev.ret = "false"
    /\ ~isRunning /\ rafQueue = {} /\ starts = << >>
    /\ curAnalyzer.audioContext = "running" /\ mediaBound = {"el1"}
    /\ RetryCanSucceed(curAnalyzer, mediaBound)

\* C21 as stated: after dispose(), called in any state, the analyzer holds no
\* audio context, analyser node, source node or data buffer, and analyze()
\* returns none.
C21_DisposeReleasesEverything ==
    ev.op = "dispose" =>
        (/\ curAnalyzer.audioContext = "null"
         /\ ~curAnalyzer.analyser
         /\ curAnalyzer.source = NoElement
         /\ ~curAnalyzer.dataArray
         /\ ~analyzeReady(curAnalyzer))

\* C22 as stated: a start() with an element that already has a media-source
\* node from an earlier start() on this engine reuses that binding: with a
\* running audio context its initialization succeeds and the analyzer reads
\* from that element, no second node being created for it.
C22_RestartReusesBinding ==
    [][(ev'.op = "start" /\ ev'.ret = "pending") =>
          LET s == starts'[Len(starts')]
          IN  (s.el \in mediaBound /\ curAnalyzer'.audioContext = "running") =>
                 (/\ s.pc = "micro" /\ s.ok
                  /\ curAnalyzer'.source = s.el
                  /\ mediaBound' = mediaBound)]_vars

\* C23 as stated: for every array of frequency bins the volume analyze()
\* returns lies in [0,1] (equivalently its square does), and it is 0 exactly
\* when no bin exceeds minDecibels.
C23_VolumeInUnitInterval ==
    (ev.op = "analyze" /\ ev.ret = "frame") =>
        (/\ RLe(Zero, ev.arg.volumeSquared)
         /\ RLe(ev.arg.volumeSquared, One)
         /\ (ev.arg.volumeSquared = Zero) <=>
               (\A i \in 1..Len(ev.arg.frequencies) : ev.arg.frequencies[i] <= minDecibels))

\* C24: for every dominant frequency the vowel weights the analyzer returns
\* are each in [0,1]; they sum to 1 whenever some proximity score is nonzero,
\* and they are all zero only if every proximity score is zero.
C24_VowelWeightsNormalized ==
    ev.op = "calculateVowelWeights" =>
        LET w == ev.arg.vowelWeights
            f == ev.arg.dominantFreq
        IN  /\ DOMAIN w = Vowels
            /\ \A v \in Vowels : RLe(Zero, w[v]) /\ RLe(w[v], One)
            /\ (\E v \in Vowels : proximity(f, v) # 0) => SumFrom(w, 1, Zero) = One
            /\ (w = ZeroWeights) => (\A v \in Vowels : proximity(f, v) = 0)

\* the weights of the first formant of "aa": every score is nonzero, "aa" and
\* "oh" get the largest shares and the weights sum to 1
C24_Witness ==
    /\ ev.op = "calculateVowelWeights"
    /\ ev.arg.dominantFreq = vowelFormants["aa"].f1
    /\ \A v \in Vowels : proximity(ev.arg.dominantFreq, v) > 0
    /\ \A v \in Vowels : RLt(Zero, ev.arg.vowelWeights[v])
    /\ \A v \in Vowels \ {"aa", "oh"} :
           RLt(ev.arg.vowelWeights[v], ev.arg.vowelWeights["aa"])
    /\ SumFrom(ev.arg.vowelWeights, 1, Zero) = One

\* C25 as stated: the smoothed vector always has exactly the keys aa, e, ih,
\* oh, ou, and so has every vector that a tick or testVowel (whatever name it
\* is given) passes to the resolver.
C25_FiveVowelKeys ==
    /\ DOMAIN smoothedWeights = Vowels
    /\ (ev.op \in {"testVowel", "seqTestVowel"} /\ vrm # NoVRM) =>
           DOMAIN testWeights(ev.arg[1], ev.arg[2]) = Vowels
    /\ (ev.op \in LoopOps /\ ev.branch \in {"silence", "blend"}) =>
           DOMAIN ev.frame.vowelWeights = Vowels

\* C26 as stated: a lipSyncFrame event is emitted on a render frame only if
\* the engine is running and an avatar is loaded; none is emitted while the
\* engine is idle, after stop() has returned (until start() is called again),
\* or after the manager was disposed.
C26_FrameEventsOnlyWhileRunning ==
    [][(mgr'.op = "onFrame" /\ mgr'.emitted = <<"lipSyncFrame">>) =>
          (/\ isRunning /\ mgr.vrm # NoVRM
           /\ ~mgr.isDisposed
           /\ ~stopFence)]_vars

\* C28 as stated: once the manager has unloaded its avatar and until a new
\* avatar is bound, no operation (testVowel, runTestSequence, reset, a tick)
\* writes a sink or an expression of the unloaded avatar or calls update on it.
C28_UnloadInvalidatesBinding ==
    [][mgr.vrm = NoVRM =>
          (ev'.wrote = {} /\ ev'.exprSet = {} /\ ev'.updates = 0)]_vars

\* every sink the table holds
TableSinks ==
    UNION {{morphTargetMap[n][k] : k \in 1..Len(morphTargetMap[n])} :
              n \in DOMAIN morphTargetMap}

\* the channel names of avatar a that have a sink
ChannelNames(a) ==
    UNION {DOMAIN Meshes(a)[m].dict : m \in {k \in 1..Len(Meshes(a)) : Meshes(a)[k].infl}}

\* the sinks of the avatar that is bound
BoundSinks == IF vrm = NoVRM THEN {} ELSE SinksOf(vrm)

\* C27: after setVRM(B), whatever avatar was bound before, the channel table
\* holds exactly the channels and sinks of B, each sink once, and apply, reset
\* and setMorphTarget write no sink and no expression of another avatar.
C27_RebindReplacesTable ==
    /\ [](vrm # NoVRM =>
             /\ DOMAIN morphTargetMap = ChannelNames(vrm)
             /\ TableSinks = SinksOf(vrm)
             /\ \A n \in DOMAIN morphTargetMap :
                   /\ Len(morphTargetMap[n]) = Cardinality(SinksNamed(vrm, n))
                   /\ \A k \in 1..Len(morphTargetMap[n]) :
                         morphTargetMap[n][k] \in SinksNamed(vrm, n))
    /\ [][ev'.op \in {"apply", "reset", "setMorphTarget"} =>
             /\ ev'.wrote \subseteq BoundSinks
             /\ \A s \in Sinks \ BoundSinks : influences'[s] = influences[s]
             /\ \A k \in ExprKeys : k[1] # vrm => exprWeights'[k] = exprWeights[k]]_vars

\* avatar altOnly was bound after vrcSplit, whose channels had been written,
\* and a manual override then wrote the new avatar's mouth channel: the
\* sinks of vrcSplit kept the values they had
C27_Witness ==
    /\ vrm = "altOnly"
    /\ ev.op = "setMorphTarget" /\ ev.ret = "true"
    /\ ev.wrote = SinksNamed("altOnly", "mouth_open")
    /\ \E s \in SinksOf("vrcSplit") : influences[s] = One
    /\ TableSinks = SinksOf("altOnly")

\* C29 as stated: an emitted event is delivered at least once to every
\* listener that is registered for its type at the moment of the emit, also
\* when listeners call on() or off() during the delivery.
C29_EmitReachesRegisteredListeners ==
    ev.op = "emit" =>
        \A k \in 1..Len(ev.arg.registered) :
            \E j \in 1..Len(ev.arg.calls) : ev.arg.calls[j] = ev.arg.registered[k]

\* C30 as stated: under every interleaving of start() and stop(), two
\* overlapping start() calls included, at most one tick is pending, the stored
\* animation-frame handle refers to it, and nothing is pending after a stop().
C30_SingleTickChain ==
    /\ Cardinality(rafQueue) <= 1
    /\ rafQueue # {} => rafQueue = {animationFrame}
    /\ ev.op = "stop" => rafQueue = {}

\* C31 as stated: whenever the engine is running, the analyzer it holds is
\* initialized, so that every processed tick obtains an analysis frame; also
\* after updateConfig with a smoothing value while running.
C31_RunningAnalyzerInitialized ==
    /\ isRunning => analyzeReady(curAnalyzer)
    /\ (ev.op = "tick" /\ ev.branch # "throttled" /\ ev.branch # "notrunning") =>
           ev.branch # "noframe"

\* C32 as stated: when a stop() returns, every analyzer instance that the
\* engine initialized has been disposed: no audio context is left open and no
\* source is left connected, whatever start, updateConfig and stop calls
\* came before.
C32_StopDisposesEveryAnalyzer ==
    ev.op = "stop" =>
        \A k \in 1..Len(analyzers) :
            /\ analyzers[k].audioContext \notin {"running", "suspended"}
            /\ analyzers[k].source = NoElement

\* C33: in every reachable state in which the engine is not running, all
\* five smoothed weights are 0: stop() and a restart zero the vector, and no
\* step outside a run (a failed start, a stale animation frame) changes it.
C33_IdleWeightsAreZero ==
    ~isRunning => smoothedWeights = ZeroWeights

\* a stop() that found non-zero smoothed weights has zeroed them
C33_Witness ==
    /\ ev.op = "stop" /\ ev.arg # ZeroWeights
    /\ ~isRunning /\ smoothedWeights = ZeroWeights

\* C34 as stated: every value written to a morph channel sink or to an
\* expression weight lies in [0, 1], whichever path writes it (a tick,
\* testVowel with any weight, runTestSequence, setMorphTarget or reset).
C34_WrittenValuesInUnitInterval ==
    /\ \A s \in Sinks : RLe(Zero, influences[s]) /\ RLe(influences[s], One)
    /\ \A k \in ExprKeys : RLe(Zero, exprWeights[k]) /\ RLe(exprWeights[k], One)

\* C35 as stated: for every interleaving of loadVRM calls, two loads in flight
\* at once included, at most one avatar scene is attached to the scene graph,
\* and the avatar bound to the manager and its features is the attached one.
C35_OneAvatarAttached ==
    /\ Cardinality(mgr.attached) <= 1
    /\ mgr.attached \subseteq {mgr.inst}
    /\ (mgr.vrm # NoVRM /\ ~mgr.isDisposed) => (mgr.attached = {mgr.inst} /\ vrm = mgr.vrm)

\* C36 as stated, for the avatar, the features and the loaded event: after
\* dispose() has returned the manager never again holds an avatar, never
\* hands one to its features and emits no loaded event, also when a loadVRM
\* that was started before the dispose() completes afterwards; a second
\* dispose() changes nothing.
C36_DisposedManagerStaysEmpty ==
    /\ [](mgr.isDisposed => mgr.vrm = NoVRM)
    /\ [][mgr.isDisposed =>
            (/\ mgr'.isDisposed
             /\ ev'.op # "setVRM"
             /\ mgr'.emitted # <<"loaded">>
             /\ mgr'.op = "dispose" =>
                    (mgr' = [mgr EXCEPT !.op = "dispose", !.emitted = << >>]
                     /\ UNCHANGED <<mapperVars, meshVars, loopVars, audioVars>>))]_vars

\* C37 as stated: ResourceLoader.loadVRM never resolves to an avatar whose
\* resources were released by disposeVRM: the avatar that a completed load
\* hands to the manager is not a disposed one.
C37_LoadedAvatarNotDisposed ==
    (mgr.op = "loadVRM" /\ mgr.emitted = <<"loaded">>) => mgr.inst \notin mgr.disposed


\* the orderings of the entries of an object
Orderings(entries) ==
    {e \in [1..Len(entries) -> {entries[i] : i \in 1..Len(entries)}] :
        \A i \in 1..Len(entries) : \E j \in 1..Len(entries) : e[j] = entries[i]}

\* C38 as stated: the face that blendExpressions(E) produces depends only on
\* the name/weight pairs of E, not on their order: every ordering of the same
\* entries leaves every expression weight and morph influence the same.
C38_BlendIsOrderIndependent ==
    [][mgr'.op = "blendExpressions" =>
          \A e \in Orderings(ev'.arg) : blendExpressions(mgr.face, e) = mgr'.face]_vars

\* C39 as stated: animationStart for name n is emitted only when animation n
\* became the player's current action; animation.play(n) with a name that is
\* not loaded leaves the current action and the paused flag unchanged and
\* emits no animationStart.
C39_AnimationStartOnlyWhenPlaying ==
    [][mgr'.op = "animation.play" =>
          (/\ mgr'.emitted = <<"animationStart">> =>
                  (ev'.arg \in mgr.player.animations
                   /\ mgr'.player.currentAction = ev'.arg)
           /\ ev'.arg \notin mgr.player.animations =>
                  (/\ mgr'.player.currentAction = mgr.player.currentAction
                   /\ mgr'.player.isPaused = mgr.player.isPaused
                   /\ mgr'.emitted = << >>))]_vars
====
